---- MODULE Spec2Model ----
(***************************************************************************)
(* MoodMix: the playlist builder (music/builder.py), the advisory selector *)
(* (llm/selector.py) and the plan-then-build lease (llm/views.py,          *)
(* music/views.py), as state machines.                                     *)
(*                                                                         *)
(* Text is a sequence of one-character strings, so that casefolding,       *)
(* punctuation stripping, splitting and substring tests are computed.      *)
(* A missing value (Python None) of a text field is the empty sequence, of *)
(* an id or uri the empty string.                                          *)
(***************************************************************************)
EXTENDS Integers, Sequences, FiniteSets, TLC

(***************************************************************************)
(* Text helpers (Python str methods and the two re.sub calls of            *)
(* _content_key).                                                          *)
(***************************************************************************)
UpperChars ==
  <<"A","B","C","D","E","F","G","H","I","J","K","L","M",
    "N","O","P","Q","R","S","T","U","V","W","X","Y","Z">>

LowerChars ==
  <<"a","b","c","d","e","f","g","h","i","j","k","l","m",
    "n","o","p","q","r","s","t","u","v","w","x","y","z">>

PunctChars == {"-", "!", "'", ".", ","}

IndexIn(c, cs) == IF \E i \in DOMAIN cs : cs[i] = c
                  THEN CHOOSE i \in DOMAIN cs : cs[i] = c
                  ELSE 0

LowerChar(c) == IF IndexIn(c, UpperChars) # 0 THEN LowerChars[IndexIn(c, UpperChars)] ELSE c

UpperChar(c) == IF IndexIn(c, LowerChars) # 0 THEN UpperChars[IndexIn(c, LowerChars)] ELSE c

Lower(s) == [i \in DOMAIN s |-> LowerChar(s[i])]

Upper(s) == [i \in DOMAIN s |-> UpperChar(s[i])]

RECURSIVE LStrip(_)
LStrip(s) == IF s # <<>> /\ Head(s) = " " THEN LStrip(Tail(s)) ELSE s

RECURSIVE RStrip(_)
RStrip(s) == IF s # <<>> /\ s[Len(s)] = " " THEN RStrip(SubSeq(s, 1, Len(s) - 1)) ELSE s

Strip(s) == RStrip(LStrip(s))

\* re.sub(r"[^\w\s]+", "", s)
StripPunct(s) == SelectSeq(s, LAMBDA c : c \notin PunctChars)

\* re.sub(r"\s+", " ", s)
RECURSIVE CollapseWs(_)
CollapseWs(s) ==
  IF s = <<>> THEN <<>>
  ELSE IF Head(s) = " " /\ Len(s) > 1 /\ s[2] = " " THEN CollapseWs(Tail(s))
  ELSE <<Head(s)>> \o CollapseWs(Tail(s))

\* the normalisation _content_key applies to the title and the primary artist
NormText(s) == Strip(CollapseWs(StripPunct(Lower(s))))

\* str.split(): the whitespace-separated words
RECURSIVE SplitWs(_, _)
SplitWs(s, cur) ==
  IF s = <<>> THEN (IF cur = <<>> THEN <<>> ELSE <<cur>>)
  ELSE IF Head(s) = " "
       THEN (IF cur = <<>> THEN <<>> ELSE <<cur>>) \o SplitWs(Tail(s), <<>>)
       ELSE SplitWs(Tail(s), Append(cur, Head(s)))

Split(s) == SplitWs(s, <<>>)

\* " ".join(words)
RECURSIVE Join(_)
Join(words) ==
  IF words = <<>> THEN <<>>
  ELSE IF Len(words) = 1 THEN words[1]
  ELSE words[1] \o <<" ">> \o Join(Tail(words))

\* tok in text
Contains(text, tok) ==
  \E i \in 0..(Len(text) - Len(tok)) : SubSeq(text, i + 1, i + Len(tok)) = tok

\* list(dict.fromkeys(s)): first occurrences, order kept
RECURSIVE DedupSeq(_)
DedupSeq(s) ==
  IF s = <<>> THEN <<>>
  ELSE LET r == DedupSeq(SubSeq(s, 1, Len(s) - 1))
       IN IF \E i \in DOMAIN r : r[i] = s[Len(s)] THEN r ELSE Append(r, s[Len(s)])

\* s[:n]
Take(s, n) == SubSeq(s, 1, IF Len(s) < n THEN Len(s) ELSE n)

RECURSIVE Flatten(_)
Flatten(ss) == IF ss = <<>> THEN <<>> ELSE Head(ss) \o Flatten(Tail(ss))

Range(s) == {s[i] : i \in DOMAIN s}

Digits == <<"0","1","2","3","4","5","6","7","8","9">>

IsDigit(c) == IndexIn(c, Digits) # 0

\* \w of a regular expression
IsWordChar(c) == IsDigit(c) \/ IndexIn(c, LowerChars) # 0 \/ IndexIn(c, UpperChars) # 0 \/ c = "_"

\* int(s) of a string of digits
RECURSIVE ToInt(_)
ToInt(s) ==
  IF s = <<>> THEN 0
  ELSE 10 * ToInt(SubSeq(s, 1, Len(s) - 1)) + (IndexIn(s[Len(s)], Digits) - 1)

Max2(a, b) == IF a >= b THEN a ELSE b

Min2(a, b) == IF a <= b THEN a ELSE b

(***************************************************************************)
(* Configuration of builder.py.                                            *)
(***************************************************************************)
MIN_TRACK_POP == 35

MIN_ARTIST_POP == 35

\* genre_map.values() of _derive_genre_tokens, in dict order
genre_map ==
  << << <<"m","e","t","a","l","c","o","r","e">> >>,
     << <<"h","a","r","d","c","o","r","e">>,
        <<"p","o","s","t","-","h","a","r","d","c","o","r","e">> >>,
     << <<"m","e","t","a","l">>,
        <<"n","u","-","m","e","t","a","l">>,
        <<"p","o","s","t","-","m","e","t","a","l">>,
        <<"d","e","a","t","h","c","o","r","e">>,
        <<"b","l","a","c","k"," ","m","e","t","a","l">>,
        <<"g","r","o","o","v","e"," ","m","e","t","a","l">> >>,
     << <<"p","u","n","k">>,
        <<"h","a","r","d","c","o","r","e"," ","p","u","n","k">>,
        <<"p","o","s","t","-","p","u","n","k">> >>,
     << <<"i","n","d","u","s","t","r","i","a","l">>,
        <<"a","g","g","r","o","t","e","c","h">>,
        <<"i","n","d","u","s","t","r","i","a","l"," ","m","e","t","a","l">> >>,
     << <<"r","o","c","k">>,
        <<"a","l","t"," ","r","o","c","k">>,
        <<"h","a","r","d"," ","r","o","c","k">> >>,
     << <<"e","d","m">>,
        <<"d","u","b","s","t","e","p">>,
        <<"b","a","s","s">>,
        <<"t","r","a","p"," ","e","d","m">>,
        <<"e","l","e","c","t","r","o"," ","h","o","u","s","e">> >>,
     << <<"h","i","p"," ","h","o","p">>,
        <<"r","a","p">>,
        <<"t","r","a","p">> >>,
     << <<"p","o","p">> >>,
     << <<"f","o","l","k">>,
        <<"i","n","d","i","e"," ","f","o","l","k">> >>,
     << <<"c","o","u","n","t","r","y">> >>,
     << <<"a","m","b","i","e","n","t">> >>,
     << <<"c","l","a","s","s","i","c","a","l">>,
        <<"o","r","c","h","e","s","t","r","a","l">> >> >>

\* PlaylistBuilder._derive_genre_tokens: the text scanned is the tags and the
\* candidate buckets; a family is added once when one of its tokens occurs
_derive_genre_tokens(plan) ==
  LET raw_terms == plan.semantic_tags \o plan.candidate_buckets
      text == Lower(Join(raw_terms))
      fam(i) == IF \E k \in DOMAIN genre_map[i] : Contains(text, genre_map[i][k])
                THEN genre_map[i] ELSE <<>>
  IN DedupSeq(Flatten([i \in DOMAIN genre_map |-> fam(i)]))

(***************************************************************************)
(* The catalogue: the track and artist documents the music service can     *)
(* hand out (library endpoints, /search, /artists).                        *)
(***************************************************************************)
Art(id, name) == [id |-> id, name |-> name]

Trk(id, uri, name, artists, explicit, popularity, duration_ms, isrc) ==
  [id |-> id, uri |-> uri, name |-> name, artists |-> artists,
   explicit |-> explicit, popularity |-> popularity,
   duration_ms |-> duration_ms, external_ids |-> [isrc |-> isrc]]

Abe == Art("a1", <<"A","b","e">>)

Bo == Art("a2", <<"B","o">>)

Cy == Art("a3", <<"C","y">>)

Dee == Art("a4", <<"D","e","e">>)

NoId == Art("", <<"E","d">>)

NoName == Art("a1", <<>>)

\* /artists documents; "a4" is unknown to the service
ArtistDB ==
  [a \in {"a1", "a2", "a3"} |->
     CASE a = "a1" -> [popularity |-> 80, genres |-> << <<"d","a","n","c","e"," ","P","o","p">> >>]
       [] a = "a2" -> [popularity |-> 20, genres |-> << <<"p","o","p">> >>]
       [] a = "a3" -> [popularity |-> 60, genres |-> <<>>]]

T1 == Trk("t1", "u1", <<"S","u","n">>, <<Abe>>, FALSE, 70, 200000, <<"u","s","1">>)

\* the same recording as T1 under another catalogue id
T2 == Trk("t2", "u2", <<"S","u","n">>, <<Abe, Bo>>, FALSE, 65, 200400, <<"U","S","1">>)

T3 == Trk("t3", "u3", <<"M","o","o","n">>, <<Abe>>, TRUE, 90, 180000, <<>>)

T4 == Trk("t4", "u4", <<"S","t","a","r">>, <<Abe>>, FALSE, 50, 210000, <<>>)

\* same title, primary artist and rounded duration as T4
T5 == Trk("t5", "u5", <<"s","t","a","r","!">>, <<Abe, NoId>>, FALSE, 45, 210499, <<>>)

T6 == Trk("t6", "u6", <<"S","k","y">>, <<Bo>>, FALSE, 60, 150000, <<>>)

T7 == Trk("t7", "u7", <<"R","a","i","n">>, <<Abe>>, FALSE, 20, 160000, <<>>)

T8 == Trk("t8", "u8", <<"M","u","d">>, <<Abe>>, FALSE, 12, 170000, <<>>)

T9 == Trk("t9", "u9", <<"S","e","a">>, <<Abe>>, FALSE, 55, 190000, <<"g","b","9">>)

T10 == Trk("t10", "u10", <<"I","c","e">>, <<Dee, Abe>>, FALSE, 40, 220500, <<>>)

T11 == Trk("t11", "u11", <<"F","o","g">>, <<Cy>>, FALSE, 55, 230000, <<>>)

T12 == Trk("", "u12", <<"N","i","l">>, <<Abe>>, FALSE, 60, 100000, <<>>)

T13 == Trk("t13", "", <<"G","a","p">>, <<Abe>>, FALSE, 60, 110000, <<>>)

T14 == Trk("t14", "u14", <<"H","u","m">>, <<NoName>>, FALSE, 60, 120000, <<>>)

Catalogue == {T1, T2, T3, T4, T5, T6, T7, T8, T9, T10, T11, T12, T13, T14}

\* the catalogue document of a track id
CatalogueTrack(tid) == CHOOSE t \in Catalogue : t.id = tid

(***************************************************************************)
(* Pure helpers of PlaylistBuilder.                                        *)
(***************************************************************************)
\* PlaylistBuilder._compact_track: external_ids is not copied
_compact_track(t) ==
  [id |-> t.id, uri |-> t.uri, name |-> t.name, explicit |-> t.explicit,
   duration_ms |-> t.duration_ms, popularity |-> t.popularity,
   artists |-> [i \in DOMAIN t.artists |-> Art(t.artists[i].id, t.artists[i].name)]]

\* round(ms / 1000): Python rounds halves to the even neighbour
RoundSecs(ms) ==
  LET q == ms \div 1000
      r == ms % 1000
  IN IF r < 500 THEN q
     ELSE IF r > 500 THEN q + 1
     ELSE IF q % 2 = 0 THEN q ELSE q + 1

\* PlaylistBuilder._content_key
_content_key(track) ==
  LET isrc == IF "external_ids" \in DOMAIN track
              THEN Upper(Strip(track.external_ids.isrc)) ELSE <<>>
      title == NormText(track.name)
      primary == IF track.artists # <<>> THEN NormText(track.artists[1].name) ELSE <<>>
      secs == RoundSecs(track.duration_ms)
  IN IF isrc # <<>> THEN <<"isrc", isrc>> ELSE <<"tap", title, primary, secs>>

\* sorted(items, key=popularity, reverse=True): stable
RECURSIVE InsertByPop(_, _)
InsertByPop(sorted, t) ==
  IF sorted = <<>> THEN <<t>>
  ELSE IF Head(sorted).popularity >= t.popularity
       THEN <<Head(sorted)>> \o InsertByPop(Tail(sorted), t)
       ELSE <<t>> \o sorted

\* a faulty sort, which C21 must tell from the real one: the items stay in the
\* order the search returned them
SortKeepsOrder(items) == items

RECURSIVE SortByPopDesc(_)
SortByPopDesc(items) ==
  IF items = <<>> THEN <<>>
  ELSE InsertByPop(SortByPopDesc(SubSeq(items, 1, Len(items) - 1)), items[Len(items)])

\* [a.get("id") for a in track["artists"] if a.get("id")]
ArtistIdsOf(track) ==
  LET withId == SelectSeq(track.artists, LAMBDA a : a.id # "")
  IN [i \in DOMAIN withId |-> withId[i].id]

\* client.get_artists: it raises (ok = FALSE) or returns the documents of the
\* ids the service knows
GetArtistsResponses ==
  {[ok |-> FALSE, docs |-> <<>>], [ok |-> TRUE, docs |-> ArtistDB]}

\* PlaylistBuilder._artist_info_for_ids: the cache after the call
_artist_info_for_ids(cache, artist_ids, resp) ==
  LET need == {a \in Range(artist_ids) : a # "" /\ a \notin DOMAIN cache}
  IN IF need = {} \/ ~resp.ok THEN cache
     ELSE [a \in DOMAIN cache \cup (need \cap DOMAIN resp.docs) |->
             IF a \in DOMAIN cache THEN cache[a] ELSE resp.docs[a]]

\* amap.get(aid) or {}: popularity and genres of an artist, 0 and [] when unknown
ArtistPop(cache, aid) == IF aid \in DOMAIN cache THEN cache[aid].popularity ELSE 0

ArtistGenres(cache, aid) == IF aid \in DOMAIN cache THEN cache[aid].genres ELSE <<>>

\* PlaylistBuilder._passes_popularity
_passes_popularity(cache, track, min_track_pop, min_artist_pop, resp) ==
  IF track.popularity < min_track_pop THEN [ok |-> FALSE, cache |-> cache]
  ELSE LET a_ids == ArtistIdsOf(track)
           c2 == _artist_info_for_ids(cache, DedupSeq(a_ids), resp)
           pops == {ArtistPop(c2, a_ids[i]) : i \in DOMAIN a_ids} \cup {0}
           best_artist_pop == CHOOSE p \in pops : \A x \in pops : x <= p
       IN [ok |-> best_artist_pop >= min_artist_pop, cache |-> c2]

\* any(any(tok in g for tok in tokens) for g in genres)
GenresMatch(genres, tokens) ==
  \E i \in DOMAIN genres : \E k \in DOMAIN tokens : Contains(Lower(genres[i]), tokens[k])

\* PlaylistBuilder._artist_genres_match
_artist_genres_match(cache, track, allowed_genre_tokens, resp) ==
  IF allowed_genre_tokens = <<>> THEN [ok |-> TRUE, cache |-> cache]
  ELSE LET tokens == [i \in DOMAIN allowed_genre_tokens |-> Lower(allowed_genre_tokens[i])]
           a_ids == ArtistIdsOf(track)
           c2 == _artist_info_for_ids(cache, DedupSeq(a_ids), resp)
       IN [ok |-> \E i \in DOMAIN a_ids : GenresMatch(ArtistGenres(c2, a_ids[i]), tokens),
           cache |-> c2]

\* a faulty guard, which C19 must tell from the real one: the artists are
\* not looked at
FilterKeepsTrackOnly(cache, cand, allowed_tokens, min_track_pop, min_artist_pop) ==
  cand.popularity >= min_track_pop

\* a faulty guard, which C22 must tell from the real one: only the first
\* credited artist is looked at
FilterKeepsFirstArtist(cache, cand, allowed_tokens, min_track_pop, min_artist_pop) ==
  LET known == SelectSeq(Take(cand.artists, 1), LAMBDA a : a.id \in DOMAIN cache)
      best_artist_pop == IF known = <<>> THEN 0 ELSE cache[known[1].id].popularity
      artist_genres == IF known = <<>> THEN <<>> ELSE cache[known[1].id].genres
  IN /\ cand.popularity >= min_track_pop
     /\ best_artist_pop >= min_artist_pop
     /\ allowed_tokens # <<>> => GenresMatch(artist_genres, allowed_tokens)

\* the guard of one candidate inside _apply_artist_pop_and_genre_filters
FilterKeeps(cache, cand, allowed_tokens, min_track_pop, min_artist_pop) ==
  LET known == SelectSeq(cand.artists, LAMBDA a : a.id \in DOMAIN cache)
      artist_pops == {cache[known[i].id].popularity : i \in DOMAIN known}
      best_artist_pop == IF artist_pops = {} THEN 0
                         ELSE CHOOSE p \in artist_pops : \A x \in artist_pops : x <= p
      artist_genres == Flatten([i \in DOMAIN known |-> cache[known[i].id].genres])
  IN /\ cand.popularity >= min_track_pop
     /\ best_artist_pop >= min_artist_pop
     /\ allowed_tokens # <<>> => GenresMatch(artist_genres, allowed_tokens)

\* PlaylistBuilder._apply_artist_pop_and_genre_filters
_apply_artist_pop_and_genre_filters(cache, items, allowed_genre_tokens, min_track_pop, min_artist_pop, resp) ==
  IF items = <<>> THEN [kept |-> <<>>, rejected |-> 0, cache |-> cache]
  ELSE LET artist_ids == DedupSeq(Flatten([i \in DOMAIN items |-> ArtistIdsOf(items[i])]))
           c2 == _artist_info_for_ids(cache, artist_ids, resp)
           allowed_tokens == [i \in DOMAIN allowed_genre_tokens |-> Lower(allowed_genre_tokens[i])]
           kept == SelectSeq(items, LAMBDA cand :
                     FilterKeeps(c2, cand, allowed_tokens, min_track_pop, min_artist_pop))
       IN [kept |-> kept, rejected |-> Len(items) - Len(kept), cache |-> c2]

\* PlaylistBuilder._safe_search: client.search_tracks raising (ok = FALSE) is
\* turned into no items
_safe_search(resp) == IF resp.ok THEN resp.items ELSE <<>>

\* all(part in (name + " " + artists) for part in q.lower().split())
NameMatches(cand, q) ==
  LET nm == Lower(cand.name)
      arts == Lower(Join([i \in DOMAIN cand.artists |-> cand.artists[i].name]))
      hay == nm \o <<" ">> \o arts
      parts == Split(Lower(q))
  IN \A i \in DOMAIN parts : Contains(hay, parts[i])

\* PlaylistBuilder._search_and_pick; picked is <<>> (None) or <<track>>
_search_and_pick(cache, q, want_clean, seen, allowed_genre_tokens, min_track_pop, min_artist_pop, searchResp, artistResp) ==
  LET items == _safe_search(searchResp)
      early == SelectSeq(items, LAMBDA cand :
                 /\ cand.id # ""
                 /\ cand.id \notin seen
                 /\ ~(want_clean /\ cand.explicit))
      f == _apply_artist_pop_and_genre_filters(cache, early, allowed_genre_tokens,
                                               min_track_pop, min_artist_pop, artistResp)
      exact == SelectSeq(f.kept, LAMBDA cand : NameMatches(cand, q))
      picked == IF exact # <<>> THEN <<exact[1]>>
                ELSE IF f.kept # <<>> THEN <<f.kept[1]>> ELSE <<>>
  IN [picked |-> picked, rejected |-> f.rejected, cache |-> f.cache]

(***************************************************************************)
(* Candidate pool and search queries.                                      *)
(***************************************************************************)
Sources == <<"recent", "top_short", "top_medium", "saved">>

\* a faulty _insert, which C25 must tell from the real one: a track the pool
\* already holds is counted for its source again
RECURSIVE InsertCountsRepeats(_, _, _, _)
InsertCountsRepeats(acc, ts, source, disallowed) ==
  IF ts = <<>> THEN acc
  ELSE LET t == Head(ts)
           nxt == IF t.id = "" \/ t.uri = "" THEN acc
                  ELSE IF t.id \in disallowed
                       THEN [acc EXCEPT !.filtered_from_pool = @ + 1]
                  ELSE IF \E i \in DOMAIN acc.pool : acc.pool[i].track.id = t.id
                       THEN [acc EXCEPT !.counts[source] = @ + 1]
                  ELSE [acc EXCEPT !.pool = Append(@, [track |-> t, source |-> source]),
                                   !.counts[source] = @ + 1]
       IN InsertCountsRepeats(nxt, Tail(ts), source, disallowed)

\* the nested _insert of _collect_pool_with_counts
RECURSIVE _insert(_, _, _, _)
_insert(acc, ts, source, disallowed) ==
  IF ts = <<>> THEN acc
  ELSE LET t == Head(ts)
           nxt == IF t.id = "" \/ t.uri = "" THEN acc
                  ELSE IF t.id \in disallowed
                       THEN [acc EXCEPT !.filtered_from_pool = @ + 1]
                  ELSE IF \E i \in DOMAIN acc.pool : acc.pool[i].track.id = t.id THEN acc
                  ELSE [acc EXCEPT !.pool = Append(@, [track |-> t, source |-> source]),
                                   !.counts[source] = @ + 1]
       IN _insert(nxt, Tail(ts), source, disallowed)

\* a faulty collection, which C26 must tell from the real one: the first
\* failing fetch ends the collection (one try around all fetches)
RECURSIVE CollectFromAbort(_, _, _, _)
CollectFromAbort(acc, lib, i, disallowed) ==
  IF i > Len(Sources) \/ ~lib[i].ok THEN acc
  ELSE CollectFromAbort(_insert(acc, lib[i].items, Sources[i], disallowed),
                        lib, i + 1, disallowed)

\* PlaylistBuilder._collect_pool_with_counts; lib[i] is what the i-th library
\* endpoint answers (ok = FALSE: it raised); the pool keeps insertion order
RECURSIVE CollectFrom(_, _, _, _)
CollectFrom(acc, lib, i, disallowed) ==
  IF i > Len(Sources) THEN acc
  ELSE CollectFrom(IF lib[i].ok THEN _insert(acc, lib[i].items, Sources[i], disallowed) ELSE acc,
                   lib, i + 1, disallowed)

_collect_pool_with_counts(disallowed, lib) ==
  CollectFrom([pool |-> <<>>,
               counts |-> [s \in Range(Sources) |-> 0],
               filtered_from_pool |-> 0], lib, 1, disallowed)

PoolIds(pl) == {pl[i].track.id : i \in DOMAIN pl}

\* pool[lid]
PoolGet(pl, lid) == (CHOOSE e \in Range(pl) : e.track.id = lid).track

\* the artists list handed to LibraryItem: the non-empty artist names
LibraryItemArtists(t) ==
  LET named == SelectSeq(t.artists, LAMBDA a : a.name # <<>>)
  IN [i \in DOMAIN named |-> named[i].name]

LIBRARY_CAP == 400

\* LibraryItem(...) raises a validation error when artists is empty
LibraryItemsValid(pl) ==
  \A i \in DOMAIN pl : i <= LIBRARY_CAP => LibraryItemArtists(pl[i].track) # <<>>

\* the artist names read off the most popular pool entries
RECURSIVE TopArtistNames(_, _)
TopArtistNames(entries, artist_names) ==
  IF entries = <<>> THEN artist_names
  ELSE LET names == SelectSeq([i \in DOMAIN Head(entries).artists |-> Head(entries).artists[i].name],
                              LAMBDA nm : nm # <<>>)
           acc == artist_names \o names
       IN IF Len(acc) >= 5 THEN acc ELSE TopArtistNames(Tail(entries), acc)

\* " ".join([bt for bt in [a, b] if bt]).strip()
JoinNonEmpty(a, b) == Strip(Join(SelectSeq(<<a, b>>, LAMBDA x : x # <<>>)))

\* PlaylistBuilder._queries_from_plan_and_pool
_queries_from_plan_and_pool(pl, pln, clean) ==
  LET mood == Lower(Strip(pln.normalized_mood))
      tags == Take(pln.semantic_tags, 6)
      themes == Take(pln.themes, 4)
      base_terms == SelectSeq(<<mood>> \o tags \o themes, LAMBDA x : x # <<>>)
      entries == SortByPopDesc([i \in DOMAIN pl |-> pl[i].track])
      artist_names == Take(DedupSeq(TopArtistNames(entries, <<>>)), 5)
      tags4 == Take(tags, 4)
      themes3 == Take(themes, 3)
      simple_phrases ==
        SelectSeq([i \in DOMAIN tags4 |-> JoinNonEmpty(mood, tags4[i])]
                  \o [i \in DOMAIN themes3 |-> JoinNonEmpty(mood, themes3[i])],
                  LAMBDA x : x # <<>>)
      terms == IF Take(tags, 3) # <<>> THEN Take(tags, 3) ELSE <<mood>>
      artist_phrases ==
        SelectSeq(Flatten([a \in DOMAIN artist_names |->
                    [k \in DOMAIN terms |-> Strip(Join(<<terms[k], artist_names[a]>>))]]),
                  LAMBDA x : x # <<>>)
      q0 == DedupSeq(simple_phrases \o artist_phrases)
      q1 == IF q0 = <<>> /\ base_terms # <<>> THEN <<Join(Take(base_terms, 2))>> ELSE q0
      q2head == Take(q1, 2)
  IN IF clean
     THEN Take(q1, 10) \o [i \in DOMAIN q2head |-> q2head[i] \o <<" ","c","l","e","a","n">>]
     ELSE q1

BACKFILL_QUERY_CAP == 12

\* the query list of the relaxed pass; raises IndexError (ok = FALSE) when the
\* mood text has no word
RelaxedQueries(pln, allowed_genre_tokens) ==
  LET words == Split(IF pln.normalized_mood # <<>> THEN pln.normalized_mood ELSE pln.intent)
  IN IF words = <<>> THEN [ok |-> FALSE, queries |-> <<>>]
     ELSE LET mood_word == Lower(Strip(words[1]))
              toks == SelectSeq(allowed_genre_tokens, LAMBDA t : t # <<>>)
              byTok == Flatten([i \in DOMAIN toks |->
                         <<toks[i], toks[i] \o <<" ","h","i","t","s">>,
                           toks[i] \o <<" ","t","o","p"," ","s","o","n","g","s">> >>])
              byMood == IF mood_word # <<>>
                        THEN <<mood_word, mood_word \o <<" ","h","i","t","s">> >> ELSE <<>>
          IN [ok |-> TRUE, queries |-> DedupSeq(byTok \o byMood)]

RELAXED_MIN_POP == 10

\* a faulty floor, which C20 must tell from the real one: half of
\* MIN_TRACK_POP is forgotten
RelaxedFloorLow == RELAXED_MIN_POP

\* pop_thresh = max(10, MIN_TRACK_POP // 2), by the configured threshold
pop_thresh(configured) == Max2(RELAXED_MIN_POP, configured \div 2)

\* pop_thresh of the relaxed pass
RelaxedFloor == pop_thresh(MIN_TRACK_POP)

(***************************************************************************)
(* The advisory selector (llm/selector.py).                                *)
(***************************************************************************)
\* a pick of the advisory payload; an absent field is "" or <<>>
Pick(library_id, title, artist) == [library_id |-> library_id, title |-> title, artist |-> artist]

LibPick(id) == Pick(id, <<>>, <<>>)

OutPick(title, artist) == Pick("", title, artist)

\* a faulty validator, which C27 must tell from the real one: a pick with a
\* library_id and a title+artist pair is let through
ValidatePickEither(p) ==
  p.library_id # "" \/ (p.title # <<>> /\ p.artist # <<>>)

\* SelectorPick.validate_pick
validate_pick(p) ==
  LET has_lib == p.library_id # ""
      has_outside == p.title # <<>> /\ p.artist # <<>>
  IN /\ ~(has_lib /\ has_outside)
     /\ has_lib \/ has_outside

MAX_PICKS == 10

\* what one _attempt_llm call produces: the call raises ("llm_error"), the text
\* holds no JSON object ("no_braces"), json.loads fails ("bad_json"), the object
\* has no well-typed picks list ("malformed"), or it has one ("object")
LlmOutput(kind, picks) == [kind |-> kind, picks |-> picks]

\* _extract_json followed by SelectorResult.model_validate: TRUE when no error
SelectorResultValid(raw) ==
  /\ raw.kind = "object"
  /\ Len(raw.picks) >= 1
  /\ Len(raw.picks) <= MAX_PICKS
  /\ \A i \in DOMAIN raw.picks : validate_pick(raw.picks[i])

MAX_DISALLOWED == 1200

NoPicks == <<>>

\* SelectorInput(...) of select_tracks: the length and list-size constraints
SelectorInputValid(n, disallowed, pairs) ==
  /\ n >= 4
  /\ n <= 10
  /\ Cardinality(disallowed) <= MAX_DISALLOWED
  /\ Len(pairs) <= MAX_DISALLOWED

\* select_tracks as a function of what the (at most two) _attempt_llm calls
\* produce: the validated picks, or the error raised to the caller
select_tracks(n, disallowed, pairs, raw, raw2) ==
  IF ~SelectorInputValid(n, disallowed, pairs)
  THEN [ok |-> FALSE, picks |-> NoPicks, error |-> "SelectorInputInvalid"]
  ELSE IF raw.kind = "llm_error"
  THEN [ok |-> FALSE, picks |-> NoPicks, error |-> "LlmCallFailed"]
  ELSE IF SelectorResultValid(raw)
  THEN [ok |-> TRUE, picks |-> raw.picks, error |-> "none"]
  ELSE IF raw2.kind = "llm_error"
  THEN [ok |-> FALSE, picks |-> NoPicks, error |-> "LlmCallFailed"]
  ELSE IF SelectorResultValid(raw2)
  THEN [ok |-> TRUE, picks |-> raw2.picks, error |-> "none"]
  ELSE [ok |-> FALSE, picks |-> NoPicks, error |-> "SelectorInvalid"]

(***************************************************************************)
(* Inputs of one preview call and the answers of the collaborators.        *)
(***************************************************************************)
Plan(normalized_mood, intent, semantic_tags, themes, candidate_buckets, explicit_allowed) ==
  [normalized_mood |-> normalized_mood, intent |-> intent,
   semantic_tags |-> semantic_tags, themes |-> themes,
   candidate_buckets |-> candidate_buckets, explicit_allowed |-> explicit_allowed]

PopMood == <<"P","o","p">>

\* plans MoodPlan validation accepts; explicit_allowed "none" is an absent value
PlanPopNo == Plan(PopMood, <<"r","e","l","a","x">>, << <<"P","o","p">> >>,
                  << <<"P","o","p">> >>, << <<"h","i","t","s">> >>, "no")

PlanPopPref == Plan(PopMood, <<"r","e","l","a","x">>, << <<"P","o","p">> >>,
                    << <<"P","o","p">> >>, << <<"h","i","t","s">> >>, "user_pref")

PlanPlainYes == Plan(<<"C","a","l","m"," ","f","o","c","u","s">>, <<"f","o","c","u","s">>,
                     << <<"s","o","f","t">> >>, << <<"r","o","c","k">> >>,
                     << <<"e","a","s","y">> >>, "yes")

PlanEmptyMood == Plan(<<>>, <<>>, << <<"s","o","f","t">> >>, << <<"s","o","f","t">> >>,
                      << <<"e","a","s","y">> >>, "none")

\* the caller's exclusions: ids and (title, artist) pairs of recent playlists
TitleArtist(title, artist) == [title |-> title, artist |-> artist]

Sun == <<"S","u","n">>

NoExclusions == [ids |-> {}, pairs |-> <<>>]

RecentExclusions == [ids |-> {"t1"}, pairs |-> <<TitleArtist(Sun, <<"A","b","e">>)>>]

\* one call of preview: the plan, the length argument and the exclusions
Call(pln, len, exclusions) == [plan |-> pln, length |-> len, exclusions |-> exclusions]

\* the calls explored: every explicit policy, a length below the floor of 4
\* and one above it, with and without exclusions
PreviewCalls ==
  {Call(PlanPopNo, 3, RecentExclusions),
   Call(PlanPopPref, 5, NoExclusions),
   Call(PlanPlainYes, 3, NoExclusions),
   Call(PlanPlainYes, 5, RecentExclusions),
   Call(PlanEmptyMood, 3, RecentExclusions),
   Call(PlanEmptyMood, 5, NoExclusions)}

Answer(items) == [ok |-> TRUE, items |-> items]

Failure == [ok |-> FALSE, items |-> <<>>]

\* what the four library endpoints answer when they do not fail
LibraryContent == <<Answer(<<T1, T4>>), Answer(<<T4, T3, T12>>),
                    Answer(<<T14>>), Answer(<<T9, T13, T1>>)>>

\* every endpoint fails, one fails, none fails
LibraryAnswers ==
  {[i \in DOMAIN Sources |-> Failure],
   [LibraryContent EXCEPT ![3] = Failure],
   LibraryContent}

\* client.get_me(): it raises, or tells the user's explicit-content filter
MeAnswers == {[ok |-> FALSE, filter_enabled |-> FALSE],
              [ok |-> TRUE, filter_enabled |-> FALSE],
              [ok |-> TRUE, filter_enabled |-> TRUE]}

\* what client.search_tracks can answer to a query
SearchAnswers ==
  {Failure,
   Answer(<<T2, T1, T3, T6, T8>>),
   Answer(<<T5, T4, T10, T12, T9, T7, T11>>)}

\* what one _attempt_llm call can produce
LlmOutputs ==
  {LlmOutput("llm_error", <<>>),
   LlmOutput("no_braces", <<>>),
   LlmOutput("bad_json", <<>>),
   LlmOutput("malformed", <<>>),
   LlmOutput("object", <<>>),
   LlmOutput("object", <<LibPick("t4"), Pick("t1", Sun, <<"A","b","e">>)>>),
   LlmOutput("object", <<LibPick("t4"), Pick("", Sun, <<>>)>>),
   LlmOutput("object", <<LibPick("t1"), LibPick("t4"), LibPick("t9"), LibPick("t3")>>),
   LlmOutput("object", <<OutPick(Sun, <<"a","b","e">>), LibPick("t4"), LibPick("t4"),
                         LibPick("zz"), OutPick(Sun, <<"a","b","e">>)>>),
   LlmOutput("object", <<OutPick(<<"M","o","o","n">>, <<"A","b","e">>)>>)}

(***************************************************************************)
(* State.                                                                  *)
(***************************************************************************)
VARIABLES
  \* one PlaylistBuilder.preview call
  pc,                        \* position in preview
  error,                     \* the exception preview raised, "none" if none
  plan, length, disallowed_ids, disallowed_title_artist,   \* arguments
  library,                   \* what the four library endpoints answered
  pool, source_counts, filtered_from_pool,
  user_wants_clean,          \* "None", "True" or "False"
  picks,                     \* res.picks
  allowed_genre_tokens,      \* the genre tokens derived from the plan
  idx,                       \* index of the running loop
  artist_cache,              \* self._artist_cache
  chosen, outside_requested, outside_resolved, missing_resolutions,
  rejected_low_pop_or_genre,
  seen, seen_keys, uniq,
  queries, need,
  deduped_queries, fallback_needed,
  search_calls,              \* how often each stage called client.search_tracks,
                             \* and how many of the calls raised
  result,                    \* the BuildPreview returned
  \* one select_tracks call
  sel_pc,                    \* position in select_tracks
  sel_length,                \* its length argument
  llm_calls,                 \* how many times _attempt_llm was called
  attempts_debug,            \* one entry per attempt that returned: its output
  sel_result,                \* the picks returned
  sel_error,                 \* the exception select_tracks raised, "none" if none
  \* one user's plan_from_mood and playlist_build requests
  now,                       \* timezone.now(), in seconds
  cooldown_enabled,          \* ENABLE_BUILD_COOLDOWN
  profile,                   \* the user's UserProfile row
  requests,                  \* the requests received so far, in order of arrival
  \* one playlist_preview or playlist_build request
  view_pc,                   \* position in the view
  view_name,                 \* which view serves the request
  view_length,               \* length, after the clamp
  preview_uris,              \* len(preview.uris), -1 before preview returned
  spotify_calls,             \* the catalog calls the view made after the preview
  playlist_rows,             \* PlaylistProfile rows created (their length field)
  upstream,                  \* the catalog answer that raised SpotifyHttpError
  response,                  \* the Response the client receives
  \* the popularity floors of one configuration
  min_track_pop,             \* MIN_TRACK_POP as the environment sets it
  floor_cand,                \* the popularity of the candidate tested, -1 before
  floor_verdict,             \* whether the guarded and the relaxed test let it pass
  \* the length of one plan, from the mood text to N
  len_pc,                    \* position: make_plan_from_mood, the view, preview
  mood_text,                 \* the mood the user typed
  emitted_length,            \* "length" of the model's JSON, -1 for none
  plan_length,               \* plan_obj.length, -1 for None
  request_length,            \* length as the view hands it to preview, -1 before
  preview_n,                 \* N of preview, -1 before
  \* the Spotify OAuth flow of one profile
  auth_states,               \* the SpotifyAuthState rows, in order of creation
  callbacks,                 \* the auth_spotify_callback requests, in order of arrival
  connections,               \* the callbacks that saved tokens on the profile
  \* one _refresh_stale_playlists_for_user call
  refresh_pc,                \* position: "start", "loop" or "returned"
  rows,                      \* the user's PlaylistProfile rows, in query order
  row_idx,                   \* the row the loop looks at next
  fetch_log,                 \* the get_playlist calls made: the row and the answer
  metrics                    \* the metrics dictionary

args == <<plan, length, disallowed_ids, disallowed_title_artist>>

poolVars == <<library, pool, source_counts, filtered_from_pool, user_wants_clean>>

selVars == <<picks, allowed_genre_tokens>>

pickVars == <<chosen, outside_requested, outside_resolved, missing_resolutions>>

fillVars == <<seen, seen_keys, uniq>>

backfillVars == <<queries, need>>

relaxedVars == <<deduped_queries, fallback_needed>>

\* no search call was made; failed counts the calls that raised
NoSearchCalls == [outside |-> 0, backfill |-> 0, relaxed |-> 0, failed |-> 0]

previewVars == <<pc, error, args, poolVars, selVars, idx, artist_cache, pickVars,
                 rejected_low_pop_or_genre, fillVars, backfillVars, relaxedVars, search_calls,
                 result>>

selectorVars == <<sel_pc, sel_length, llm_calls, attempts_debug, sel_result, sel_error>>

leaseVars == <<now, cooldown_enabled, profile, requests>>

handlerVars == <<view_pc, view_name, view_length, preview_uris, spotify_calls, playlist_rows,
              upstream, response>>

floorVars == <<min_track_pop, floor_cand, floor_verdict>>

\* the variables of the smaller models
lengthVars == <<len_pc, mood_text, emitted_length, plan_length, request_length, preview_n>>

oauthVars == <<auth_states, callbacks, connections>>

refreshVars == <<refresh_pc, rows, row_idx, fetch_log, metrics>>

sideVars == <<floorVars, lengthVars, oauthVars, refreshVars>>

vars == <<previewVars, selectorVars, leaseVars, handlerVars, sideVars>>

\* N = max(4, min(10, int(length or 10)))
ClampLength(len) == Max2(4, Min2(10, IF len = 0 THEN 10 ELSE len))

N == ClampLength(length)

\* plan.constraints.explicit_allowed or "user_pref"
explicit_allowed == IF plan.explicit_allowed = "none" THEN "user_pref" ELSE plan.explicit_allowed

\* a faulty explicit policy, which C6 must tell from the real one: "no" falls
\* through to the user's preference
WantCleanUserPref(policy, user_pref) ==
  IF policy = "yes" THEN FALSE ELSE user_pref = "True"

\* a faulty explicit policy, which C17 must tell from the real one: a failed
\* profile lookup falls back to clean-only
WantCleanWhenUnknown(policy, user_pref) ==
  IF policy = "no" THEN TRUE
  ELSE IF policy = "yes" THEN FALSE
  ELSE user_pref # "False"

\* the explicit policy: the plan decides, else the user's preference
WantClean(policy, user_pref) ==
  IF policy = "no" THEN TRUE
  ELSE IF policy = "yes" THEN FALSE
  ELSE user_pref = "True"

want_clean == WantClean(explicit_allowed, user_wants_clean)

\* a faulty seed, which C2 must tell from the real one: seen starts empty
SeenSeedEmpty(disallowed) == {}

\* seen = set(disallowed_ids)
SeenSeed(disallowed) == disallowed

\* a faulty duplicate test, which C4 must tell from the real one: the id is
\* not looked up in seen
IsDuplicateByKey(tid, key, seenIds, seenKeys) ==
  tid = "" \/ key \in seenKeys

\* (not tid) or (tid in seen) or (key in seen_keys)
IsDuplicate(tid, key, seenIds, seenKeys) ==
  tid = "" \/ tid \in seenIds \/ key \in seenKeys

NoResult == [uris |-> <<>>, tracks |-> <<>>, debug |-> [mode |-> "none"]]

\* the locals of preview before the call has run
PreviewLocalsInit ==
  /\ error = "none"
  /\ library = <<>>
  /\ pool = <<>>
  /\ source_counts = [s \in Range(Sources) |-> 0]
  /\ filtered_from_pool = 0
  /\ user_wants_clean = "None"
  /\ picks = NoPicks
  /\ allowed_genre_tokens = <<>>
  /\ idx = 0
  /\ artist_cache = <<>>
  /\ chosen = <<>>
  /\ outside_requested = 0
  /\ outside_resolved = 0
  /\ missing_resolutions = <<>>
  /\ rejected_low_pop_or_genre = 0
  /\ seen = {}
  /\ seen_keys = {}
  /\ uniq = <<>>
  /\ queries = <<>>
  /\ need = 0
  /\ deduped_queries = <<>>
  /\ search_calls = NoSearchCalls
  /\ fallback_needed = 0
  /\ result = NoResult

\* no preview call is running
PreviewIdle ==
  /\ pc = "idle"
  /\ plan = PlanPopNo
  /\ length = 0
  /\ disallowed_ids = {}
  /\ disallowed_title_artist = <<>>
  /\ PreviewLocalsInit

\* no select_tracks call is running
SelectorIdle ==
  /\ sel_pc = "idle"
  /\ sel_length = 0
  /\ llm_calls = 0
  /\ attempts_debug = <<>>
  /\ sel_result = NoPicks
  /\ sel_error = "none"

\* UserProfile as the model fields' defaults make it; -1 stands for None
NewProfile ==
  [plan_then_build_pending |-> FALSE,
   plan_then_build_started_at |-> -1,
   last_playlist_create_time |-> -1]

\* no request has been received
LeaseIdle ==
  /\ now = 0
  /\ cooldown_enabled = FALSE
  /\ profile = NewProfile
  /\ requests = <<>>


\* no catalog error was raised
NoUpstream ==
  [status_code |-> 0, json |-> "", headers |-> {}]

\* no response yet
NoResponse ==
  [status |-> 0, detail |-> "", payload |-> "", debug |-> FALSE, added |-> 0, headers |-> {}]

\* no playlist_preview or playlist_build request is being served
ViewIdle ==
  /\ view_pc = "idle"
  /\ view_name = "none"
  /\ view_length = 0
  /\ preview_uris = -1
  /\ spotify_calls = <<>>
  /\ playlist_rows = <<>>
  /\ upstream = NoUpstream
  /\ response = NoResponse

\* no candidate was tested against the floors
NoVerdict == [guarded |-> "none", relaxed |-> "none"]

\* the floors are not looked at: the module constant has its default
FloorIdle ==
  /\ min_track_pop = MIN_TRACK_POP
  /\ floor_cand = -1
  /\ floor_verdict = NoVerdict

\* no plan is being made
LengthIdle ==
  /\ len_pc = "idle"
  /\ mood_text = <<>>
  /\ emitted_length = -1
  /\ plan_length = -1
  /\ request_length = -1
  /\ preview_n = -1

\* no OAuth flow was started
OAuthIdle ==
  /\ auth_states = <<>>
  /\ callbacks = <<>>
  /\ connections = <<>>

\* metrics as the function starts
NoMetrics ==
  [refreshed |-> 0, deleted |-> 0, skipped |-> 0, rate_limited |-> FALSE, retry_after |-> ""]

\* no refresh runs
RefreshIdle ==
  /\ refresh_pc = "idle"
  /\ rows = <<>>
  /\ row_idx = 0
  /\ fetch_log = <<>>
  /\ metrics = NoMetrics

SideIdle ==
  /\ FloorIdle
  /\ LengthIdle
  /\ OAuthIdle
  /\ RefreshIdle

\* a preview call with its arguments, on a fresh PlaylistBuilder
PreviewInit ==
  /\ pc = "start"
  /\ \E c \in PreviewCalls :
       /\ plan = c.plan
       /\ length = c.length
       /\ disallowed_ids = c.exclusions.ids
       /\ disallowed_title_artist = c.exclusions.pairs
  /\ PreviewLocalsInit
  /\ SelectorIdle
  /\ LeaseIdle
  /\ ViewIdle
  /\ SideIdle

(***************************************************************************)
(* PlaylistBuilder.preview, one action per stage and per loop iteration    *)
(* that calls a collaborator.                                              *)
(***************************************************************************)
\* preview up to the selector call: the pool, the library snapshot, /me; libs
\* is what the library endpoints can answer
PreviewStartWith(libs) ==
  /\ pc = "start"
  /\ \E lib \in libs, me \in MeAnswers :
       LET c == _collect_pool_with_counts(disallowed_ids, lib)
       IN /\ library' = lib
          /\ pool' = c.pool
          /\ source_counts' = c.counts
          /\ filtered_from_pool' = c.filtered_from_pool
          /\ IF LibraryItemsValid(c.pool)
             THEN /\ user_wants_clean' = IF ~me.ok THEN "None"
                                         ELSE IF me.filter_enabled THEN "True" ELSE "False"
                  /\ pc' = "select"
                  /\ error' = error
             ELSE /\ user_wants_clean' = user_wants_clean
                  /\ pc' = "raised"
                  /\ error' = "LibraryItemInvalid"
  /\ UNCHANGED <<args, selVars, idx, artist_cache, pickVars, rejected_low_pop_or_genre,
                 fillVars, backfillVars, relaxedVars, search_calls, result, selectorVars, leaseVars,
                 handlerVars, sideVars>>

PreviewStart == PreviewStartWith(LibraryAnswers)

\* the select_tracks call and the derivation of the genre tokens; an error of
\* select_tracks is not caught by preview
SelectTracks ==
  /\ pc = "select"
  /\ \E raw \in LlmOutputs, raw2 \in LlmOutputs :
       LET res == select_tracks(N, disallowed_ids, disallowed_title_artist, raw, raw2)
       IN IF res.ok
          THEN /\ picks' = res.picks
               /\ allowed_genre_tokens' = _derive_genre_tokens(plan)
               /\ idx' = 1
               /\ pc' = "library_picks"
               /\ error' = error
          ELSE /\ pc' = "raised"
               /\ error' = res.error
               /\ UNCHANGED <<picks, allowed_genre_tokens, idx>>
  /\ UNCHANGED <<args, poolVars, artist_cache, pickVars, rejected_low_pop_or_genre,
                 fillVars, backfillVars, relaxedVars, search_calls, result, selectorVars, leaseVars,
                 handlerVars, sideVars>>

\* one iteration of the library-pick loop; after the last one seen is seeded
LibraryPick ==
  /\ pc = "library_picks"
  /\ LET lid == picks[idx].library_id
     IN IF lid # "" /\ lid \in PoolIds(pool) /\ lid \notin disallowed_ids
           /\ ~(want_clean /\ PoolGet(pool, lid).explicit)
        THEN \E r1 \in GetArtistsResponses, r2 \in GetArtistsResponses :
               LET track == PoolGet(pool, lid)
                   pp == _passes_popularity(artist_cache, track, MIN_TRACK_POP, MIN_ARTIST_POP, r1)
                   gm == _artist_genres_match(pp.cache, track, allowed_genre_tokens, r2)
               IN IF ~pp.ok
                  THEN /\ artist_cache' = pp.cache
                       /\ chosen' = chosen
                  ELSE /\ artist_cache' = gm.cache
                       /\ chosen' = IF gm.ok THEN Append(chosen, _compact_track(track)) ELSE chosen
        ELSE UNCHANGED <<artist_cache, chosen>>
  /\ IF idx = Len(picks)
     THEN /\ pc' = "outside_picks"
          /\ idx' = 1
          /\ seen' = SeenSeed(disallowed_ids)
          /\ seen_keys' = {}
     ELSE /\ pc' = pc
          /\ idx' = idx + 1
          /\ UNCHANGED <<seen, seen_keys>>
  /\ UNCHANGED <<error, args, poolVars, selVars, outside_requested, outside_resolved,
                 missing_resolutions, rejected_low_pop_or_genre, uniq, backfillVars,
                 relaxedVars, search_calls, result, selectorVars, leaseVars, handlerVars, sideVars>>

\* a faulty outside-pick step, which C35 must tell from the real one: a pick
\* that resolves to nothing is dropped without a record
OutsidePickSilent ==
  /\ pc = "outside_picks"
  /\ LET p == picks[idx]
     IN IF p.library_id # "" \/ p.title = <<>> \/ p.artist = <<>>
        THEN UNCHANGED <<artist_cache, pickVars, rejected_low_pop_or_genre, search_calls>>
        ELSE \E sr \in SearchAnswers, ar \in GetArtistsResponses :
               LET q == p.title \o <<" ">> \o p.artist
                   r == _search_and_pick(artist_cache, q, want_clean, seen, allowed_genre_tokens,
                                         MIN_TRACK_POP, MIN_ARTIST_POP, sr, ar)
               IN /\ outside_requested' = outside_requested + 1
                  /\ search_calls' = [search_calls EXCEPT !.outside = @ + 1,
                                                !.failed = IF sr.ok THEN @ ELSE @ + 1]
                  /\ rejected_low_pop_or_genre' = rejected_low_pop_or_genre + r.rejected
                  /\ artist_cache' = r.cache
                  /\ IF r.picked # <<>>
                     THEN /\ outside_resolved' = outside_resolved + 1
                          /\ chosen' = Append(chosen, _compact_track(r.picked[1]))
                          /\ missing_resolutions' = missing_resolutions
                     ELSE /\ missing_resolutions' = missing_resolutions
                          /\ UNCHANGED <<outside_resolved, chosen>>
  /\ IF idx = Len(picks)
     THEN pc' = "dedup" /\ idx' = 0
     ELSE pc' = pc /\ idx' = idx + 1
  /\ UNCHANGED <<error, args, poolVars, selVars, fillVars, backfillVars, relaxedVars,
                 result, selectorVars, leaseVars, handlerVars, sideVars>>

\* one iteration of the outside-pick loop
OutsidePick ==
  /\ pc = "outside_picks"
  /\ LET p == picks[idx]
     IN IF p.library_id # "" \/ p.title = <<>> \/ p.artist = <<>>
        THEN UNCHANGED <<artist_cache, pickVars, rejected_low_pop_or_genre, search_calls>>
        ELSE \E sr \in SearchAnswers, ar \in GetArtistsResponses :
               LET q == p.title \o <<" ">> \o p.artist
                   r == _search_and_pick(artist_cache, q, want_clean, seen, allowed_genre_tokens,
                                         MIN_TRACK_POP, MIN_ARTIST_POP, sr, ar)
               IN /\ outside_requested' = outside_requested + 1
                  /\ search_calls' = [search_calls EXCEPT !.outside = @ + 1,
                                                !.failed = IF sr.ok THEN @ ELSE @ + 1]
                  /\ rejected_low_pop_or_genre' = rejected_low_pop_or_genre + r.rejected
                  /\ artist_cache' = r.cache
                  /\ IF r.picked # <<>>
                     THEN /\ outside_resolved' = outside_resolved + 1
                          /\ chosen' = Append(chosen, _compact_track(r.picked[1]))
                          /\ missing_resolutions' = missing_resolutions
                     ELSE /\ missing_resolutions' =
                               Append(missing_resolutions, TitleArtist(p.title, p.artist))
                          /\ UNCHANGED <<outside_resolved, chosen>>
  /\ IF idx = Len(picks)
     THEN pc' = "dedup" /\ idx' = 0
     ELSE pc' = pc /\ idx' = idx + 1
  /\ UNCHANGED <<error, args, poolVars, selVars, fillVars, backfillVars, relaxedVars,
                 result, selectorVars, leaseVars, handlerVars, sideVars>>

\* the dedup-and-clamp walk over chosen (compacted records)
RECURSIVE DedupWalk(_, _, _)
DedupWalk(acc, ts, n) ==
  IF ts = <<>> \/ Len(acc.uniq) >= n THEN acc
  ELSE LET t == Head(ts)
           key == _content_key(t)
       IN IF IsDuplicate(t.id, key, acc.seen, acc.seen_keys)
          THEN DedupWalk([acc EXCEPT !.seen = IF t.id # "" THEN @ \cup {t.id} ELSE @],
                         Tail(ts), n)
          ELSE DedupWalk([uniq |-> Append(acc.uniq, t),
                          seen |-> acc.seen \cup {t.id},
                          seen_keys |-> acc.seen_keys \cup {key}], Tail(ts), n)

\* a faulty acceptance loop, which C34 must tell from the real one: an
\* accepted track is put in front of the tracks held
RECURSIVE BackfillAcceptFront(_, _, _)
BackfillAcceptFront(acc, items, clean) ==
  IF items = <<>> \/ acc.need <= 0 THEN acc
  ELSE LET cand == Head(items)
           key == _content_key(cand)
       IN IF IsDuplicate(cand.id, key, acc.seen, acc.seen_keys) \/ (clean /\ cand.explicit)
          THEN BackfillAcceptFront(acc, Tail(items), clean)
          ELSE BackfillAcceptFront([uniq |-> <<_compact_track(cand)>> \o acc.uniq,
                                    seen |-> acc.seen \cup {cand.id},
                                    seen_keys |-> acc.seen_keys \cup {key},
                                    need |-> acc.need - 1], Tail(items), clean)

\* the acceptance loop of the backfill pass over the guarded search items
RECURSIVE BackfillAccept(_, _, _)
BackfillAccept(acc, items, clean) ==
  IF items = <<>> \/ acc.need <= 0 THEN acc
  ELSE LET cand == Head(items)
           key == _content_key(cand)
       IN IF IsDuplicate(cand.id, key, acc.seen, acc.seen_keys) \/ (clean /\ cand.explicit)
          THEN BackfillAccept(acc, Tail(items), clean)
          ELSE BackfillAccept([uniq |-> Append(acc.uniq, _compact_track(cand)),
                               seen |-> acc.seen \cup {cand.id},
                               seen_keys |-> acc.seen_keys \cup {key},
                               need |-> acc.need - 1], Tail(items), clean)

\* the acceptance loop of the relaxed pass: the relaxed floor, no genre guard
RECURSIVE RelaxedAccept(_, _, _)
RelaxedAccept(acc, items, clean) ==
  IF items = <<>> \/ acc.need <= 0 THEN acc
  ELSE LET cand == Head(items)
           key == _content_key(cand)
       IN IF \/ IsDuplicate(cand.id, key, acc.seen, acc.seen_keys)
             \/ (clean /\ cand.explicit)
             \/ cand.popularity < RelaxedFloor
          THEN RelaxedAccept(acc, Tail(items), clean)
          ELSE RelaxedAccept([uniq |-> Append(acc.uniq, _compact_track(cand)),
                              seen |-> acc.seen \cup {cand.id},
                              seen_keys |-> acc.seen_keys \cup {key},
                              need |-> acc.need - 1], Tail(items), clean)

\* a loop that searches every query, whether or not tracks are still needed
MoreQueriesAlways(need_left, next, qs) ==
  next <= Len(qs)

\* `for q in queries: if need <= 0: break`: the loop goes on to query number
\* next when tracks are still needed and the list holds that many
MoreQueries(need_left, next, qs) ==
  need_left > 0 /\ next <= Len(qs)

\* the debug fields both returns share; market, the thresholds and
\* llm_attempts (the attempts' input and output previews) are left out
DebugCommon(rejected) ==
  [library_size |-> Len(pool), sources |-> source_counts, requested |-> N,
   explicit_policy |-> explicit_allowed, resolved_clean_only |-> want_clean,
   outside_requested |-> outside_requested, outside_resolved |-> outside_resolved,
   missing_resolutions |-> missing_resolutions,
   rejected_low_pop |-> rejected,
   disallowed_total |-> Cardinality(disallowed_ids),
   disallowed_filtered_from_pool |-> filtered_from_pool]

\* a faulty final decision, which C1 must tell from the real one: a short list
\* is returned as it is
BuildPreviewPartial(u, n, rejected) ==
  [uris |-> [i \in DOMAIN u |-> u[i].uri], tracks |-> u,
   debug |-> [mode |-> "selector+search_fallback",
              selected |-> Len(u), fallback_used |-> FALSE,
              reason |-> "",
              common |-> DebugCommon(rejected)]]

\* the final decision: the empty result when short, else the whole list
BuildPreview(u, n, rejected) ==
  IF Len(u) < n
  THEN [uris |-> <<>>, tracks |-> <<>>,
        debug |-> [mode |-> "selector+search_fallback+fallback_relaxed",
                   selected |-> Len(u), fallback_used |-> TRUE,
                   reason |-> "insufficient_tracks_after_fallback",
                   common |-> DebugCommon(rejected)]]
  ELSE [uris |-> [i \in DOMAIN u |-> u[i].uri], tracks |-> u,
        debug |-> [mode |-> "selector+search_fallback",
                   selected |-> Len(u), fallback_used |-> FALSE,
                   reason |-> "",
                   common |-> DebugCommon(rejected)]]

\* the return of preview
Return(u, rejected) ==
  /\ result' = BuildPreview(u, N, rejected)
  /\ pc' = "done"

\* stage 3, with the return when the quota is met, else the entry of the
\* backfill pass
DedupClamp ==
  /\ pc = "dedup"
  /\ LET d == DedupWalk([uniq |-> <<>>, seen |-> seen, seen_keys |-> seen_keys], chosen, N)
         qs == Take(_queries_from_plan_and_pool(pool, plan, want_clean), BACKFILL_QUERY_CAP)
     IN /\ uniq' = d.uniq
        /\ seen' = d.seen
        /\ seen_keys' = d.seen_keys
        /\ IF Len(d.uniq) < N
           THEN /\ need' = N - Len(d.uniq)
                /\ queries' = qs
                /\ idx' = 1
                /\ pc' = IF qs # <<>> THEN "backfill" ELSE "relaxed_start"
                /\ result' = result
           ELSE /\ Return(d.uniq, rejected_low_pop_or_genre)
                /\ UNCHANGED <<need, queries, idx>>
  /\ UNCHANGED <<error, args, poolVars, selVars, artist_cache, pickVars,
                 rejected_low_pop_or_genre, relaxedVars, search_calls, selectorVars, leaseVars,
                 handlerVars, sideVars>>

\* one query of the backfill pass, with the return when it fills the quota
BackfillQuery ==
  /\ pc = "backfill"
  /\ \E sr \in SearchAnswers, ar \in GetArtistsResponses :
       LET items == SortByPopDesc(_safe_search(sr))
           f == _apply_artist_pop_and_genre_filters(artist_cache, items, allowed_genre_tokens,
                                                    MIN_TRACK_POP, MIN_ARTIST_POP, ar)
           a == BackfillAccept([uniq |-> uniq, seen |-> seen, seen_keys |-> seen_keys,
                                need |-> need], f.kept, want_clean)
           rejected == rejected_low_pop_or_genre + f.rejected
       IN /\ search_calls' = [search_calls EXCEPT !.backfill = @ + 1,
                                                !.failed = IF sr.ok THEN @ ELSE @ + 1]
          /\ artist_cache' = f.cache
          /\ rejected_low_pop_or_genre' = rejected
          /\ uniq' = a.uniq
          /\ seen' = a.seen
          /\ seen_keys' = a.seen_keys
          /\ need' = a.need
          /\ idx' = idx + 1
          /\ IF MoreQueries(a.need, idx + 1, queries)
             THEN pc' = "backfill" /\ result' = result
             ELSE IF Len(a.uniq) < N
             THEN pc' = "relaxed_start" /\ result' = result
             ELSE Return(a.uniq, rejected)
  /\ UNCHANGED <<error, args, poolVars, selVars, pickVars, queries, relaxedVars,
                 selectorVars, leaseVars, handlerVars, sideVars>>

\* the entry of the relaxed pass: its query list
RelaxedStart ==
  /\ pc = "relaxed_start"
  /\ LET rq == RelaxedQueries(plan, allowed_genre_tokens)
     IN IF rq.ok
        THEN /\ fallback_needed' = N - Len(uniq)
             /\ deduped_queries' = rq.queries
             /\ idx' = 1
             /\ error' = error
             /\ IF rq.queries # <<>>
                THEN pc' = "relaxed" /\ result' = result
                ELSE Return(uniq, rejected_low_pop_or_genre)
        ELSE /\ pc' = "raised"
             /\ error' = "IndexError"
             /\ UNCHANGED <<fallback_needed, deduped_queries, idx, result>>
  /\ UNCHANGED <<args, poolVars, selVars, artist_cache, pickVars, rejected_low_pop_or_genre,
                 fillVars, backfillVars, search_calls, selectorVars, leaseVars, handlerVars, sideVars>>

\* one query of the relaxed pass, with the return after the last one
RelaxedQuery ==
  /\ pc = "relaxed"
  /\ \E sr \in SearchAnswers :
       LET items == SortByPopDesc(_safe_search(sr))
           a == RelaxedAccept([uniq |-> uniq, seen |-> seen, seen_keys |-> seen_keys,
                               need |-> fallback_needed], items, want_clean)
       IN /\ search_calls' = [search_calls EXCEPT !.relaxed = @ + 1,
                                                !.failed = IF sr.ok THEN @ ELSE @ + 1]
          /\ uniq' = a.uniq
          /\ seen' = a.seen
          /\ seen_keys' = a.seen_keys
          /\ fallback_needed' = a.need
          /\ idx' = idx + 1
          /\ IF MoreQueries(a.need, idx + 1, deduped_queries)
             THEN pc' = "relaxed" /\ result' = result
             ELSE Return(a.uniq, rejected_low_pop_or_genre)
  /\ UNCHANGED <<error, args, poolVars, selVars, artist_cache, pickVars,
                 rejected_low_pop_or_genre, backfillVars, deduped_queries, selectorVars,
                 leaseVars, handlerVars, sideVars>>

PreviewNext ==
  \/ PreviewStart
  \/ SelectTracks
  \/ LibraryPick
  \/ OutsidePick
  \/ DedupClamp
  \/ BackfillQuery
  \/ RelaxedStart
  \/ RelaxedQuery

Spec == PreviewInit /\ [][PreviewNext]_vars

(***************************************************************************)
(* preview for a user whose library holds ten clean tracks that pass the   *)
(* popularity and genre guards of a pop plan, asked for four tracks.       *)
(***************************************************************************)
T15 == Trk("t15", "u15", <<"O","n","e">>, <<Abe>>, FALSE, 60, 201000, <<>>)

T16 == Trk("t16", "u16", <<"T","w","o">>, <<Abe>>, FALSE, 58, 202000, <<>>)

T17 == Trk("t17", "u17", <<"S","i","x">>, <<Abe>>, FALSE, 52, 203000, <<>>)

T18 == Trk("t18", "u18", <<"T","e","n">>, <<Abe>>, FALSE, 48, 204000, <<>>)

T19 == Trk("t19", "u19", <<"O","d","d">>, <<Abe>>, FALSE, 44, 205000, <<>>)

T20 == Trk("t20", "u20", <<"E","n","d">>, <<Abe>>, FALSE, 36, 206000, <<>>)

\* what the four library endpoints answer for that user
TenCleanLibrary == <<Answer(<<T1, T4, T9>>), Answer(<<T10, T15, T16, T4>>),
                     Answer(<<T17, T18>>), Answer(<<T19, T20, T1>>)>>

\* preview(plan, length=4) with explicit_allowed "no" and no exclusions
PoolInit ==
  /\ pc = "start"
  /\ plan = PlanPopNo
  /\ length = 4
  /\ disallowed_ids = NoExclusions.ids
  /\ disallowed_title_artist = NoExclusions.pairs
  /\ PreviewLocalsInit
  /\ SelectorIdle
  /\ LeaseIdle
  /\ ViewIdle
  /\ SideIdle

PoolStart == PreviewStartWith({TenCleanLibrary})

PoolNext ==
  \/ PoolStart
  \/ SelectTracks
  \/ LibraryPick
  \/ OutsidePick
  \/ DedupClamp
  \/ BackfillQuery
  \/ RelaxedStart
  \/ RelaxedQuery

SpecPool == PoolInit /\ [][PoolNext]_vars

(***************************************************************************)
(* _collect_pool_with_counts over every filling of the four sources with   *)
(* the answers below, in every order: preview up to the selector call.     *)
(***************************************************************************)
\* what a library endpoint can answer: it raises, holds nothing, or holds
\* tracks, among them one without id (T12), one without playable uri (T13),
\* and one twice (T1)
CollectSourceAnswers ==
  {Failure, Answer(<<>>), Answer(<<T1, T4, T13>>), Answer(<<T4, T3, T12, T1>>),
   Answer(<<T9, T1, T1>>)}

CollectLibraries == [DOMAIN Sources -> CollectSourceAnswers]

\* the disallowed_ids of the call
CollectExclusions == {{}, {"t1"}, {"t13"}, {"t1", "t4"}}

CollectInit ==
  /\ pc = "start"
  /\ plan = PlanPopPref
  /\ length = 4
  /\ disallowed_ids \in CollectExclusions
  /\ disallowed_title_artist = <<>>
  /\ PreviewLocalsInit
  /\ SelectorIdle
  /\ LeaseIdle
  /\ ViewIdle
  /\ SideIdle

CollectStart == PreviewStartWith(CollectLibraries)

SpecCollect == CollectInit /\ [][CollectStart]_vars

(***************************************************************************)
(* select_tracks, one action per _attempt_llm call.                        *)
(***************************************************************************)
\* the length argument of a select_tracks call, inside and outside 4..10
SelectorLengths == {3, 4, 10, 11}

\* a select_tracks call with its arguments
SelectInit ==
  /\ pc = "idle"
  /\ plan = PlanPopNo
  /\ length = 0
  /\ \E x \in {NoExclusions, RecentExclusions} :
       disallowed_ids = x.ids /\ disallowed_title_artist = x.pairs
  /\ PreviewLocalsInit
  /\ sel_pc = "call"
  /\ sel_length \in SelectorLengths
  /\ llm_calls = 0
  /\ attempts_debug = <<>>
  /\ sel_result = NoPicks
  /\ sel_error = "none"
  /\ LeaseIdle
  /\ ViewIdle
  /\ SideIdle

\* the payload, the first attempt and its validation
SelectFirstAttempt ==
  /\ sel_pc = "call"
  /\ IF ~SelectorInputValid(sel_length, disallowed_ids, disallowed_title_artist)
     THEN /\ sel_pc' = "raised"
          /\ sel_error' = "SelectorInputInvalid"
          /\ UNCHANGED <<llm_calls, attempts_debug, sel_result>>
     ELSE \E raw \in LlmOutputs :
            /\ llm_calls' = llm_calls + 1
            /\ IF raw.kind = "llm_error"
               THEN /\ sel_pc' = "raised"
                    /\ sel_error' = "LlmCallFailed"
                    /\ UNCHANGED <<attempts_debug, sel_result>>
               ELSE /\ attempts_debug' = Append(attempts_debug, raw)
                    /\ sel_error' = sel_error
                    /\ IF SelectorResultValid(raw)
                       THEN sel_pc' = "returned" /\ sel_result' = raw.picks
                       ELSE sel_pc' = "retry" /\ sel_result' = sel_result
  /\ UNCHANGED <<sel_length, previewVars, leaseVars, handlerVars, sideVars>>

\* a faulty retry, which C9 must tell from the real one: an invalid retry
\* payload is answered with one more attempt
SelectRetryAgain ==
  /\ sel_pc = "retry"
  /\ \E raw2 \in LlmOutputs :
       /\ llm_calls' = llm_calls + 1
       /\ IF raw2.kind = "llm_error"
          THEN /\ sel_pc' = "raised"
               /\ sel_error' = "LlmCallFailed"
               /\ UNCHANGED <<attempts_debug, sel_result>>
          ELSE /\ attempts_debug' = Append(attempts_debug, raw2)
               /\ sel_error' = sel_error
               /\ IF SelectorResultValid(raw2)
                  THEN sel_pc' = "returned" /\ sel_result' = raw2.picks
                  ELSE sel_pc' = "retry" /\ sel_result' = sel_result
  /\ UNCHANGED <<sel_length, previewVars, leaseVars, handlerVars, sideVars>>

\* the retry with the reminder: its payload is returned or its error raised
SelectRetry ==
  /\ sel_pc = "retry"
  /\ \E raw2 \in LlmOutputs :
       /\ llm_calls' = llm_calls + 1
       /\ IF raw2.kind = "llm_error"
          THEN /\ sel_pc' = "raised"
               /\ sel_error' = "LlmCallFailed"
               /\ UNCHANGED <<attempts_debug, sel_result>>
          ELSE /\ attempts_debug' = Append(attempts_debug, raw2)
               /\ IF SelectorResultValid(raw2)
                  THEN /\ sel_pc' = "returned"
                       /\ sel_result' = raw2.picks
                       /\ sel_error' = sel_error
                  ELSE /\ sel_pc' = "raised"
                       /\ sel_error' = "SelectorInvalid"
                       /\ sel_result' = sel_result
  /\ UNCHANGED <<sel_length, previewVars, leaseVars, handlerVars, sideVars>>

SelectNext ==
  \/ SelectFirstAttempt
  \/ SelectRetry

SpecSelect == SelectInit /\ [][SelectNext]_vars

(***************************************************************************)
(* The plan-then-build lease: plan_from_mood and playlist_build of one     *)
(* user, whose requests interleave.                                        *)
(***************************************************************************)
PENDING_LEASE_TTL_SECONDS == 900

COOLDOWN_SECONDS == 86400

\* how far the clock moves in one step, how often, and how many requests
TickSeconds == 450

MaxTicks == 3

MaxRequests == 4

\* a request: its view, where its handler stands ("done" once answered), the
\* plan_from_mood request whose plan a playlist_build carries (0: none), when
\* it was granted the lease (-1: never), and the status answered (0: not yet)
Request(view, at, seq, granted_at, status) ==
  [view |-> view, at |-> at, seq |-> seq, granted_at |-> granted_at, status |-> status]

\* UserProfile.objects.filter(user=...).update(pending=False, started_at=None)
_clear_plan_pending(p) ==
  [p EXCEPT !.plan_then_build_pending = FALSE, !.plan_then_build_started_at = -1]

\* the cooldown test both views make
CooldownActive(p, enabled, t) ==
  /\ enabled
  /\ p.last_playlist_create_time >= 0
  /\ t < p.last_playlist_create_time + COOLDOWN_SECONDS

\* a lease test that never lets a pending lease expire
LeaseHeldNoExpiry(p, t) ==
  p.plan_then_build_pending

\* the lease test of plan_from_mood: pending, with a start time, younger than
\* the TTL
LeaseHeld(p, t) ==
  /\ p.plan_then_build_pending
  /\ p.plan_then_build_started_at >= 0
  /\ t - p.plan_then_build_started_at < PENDING_LEASE_TTL_SECONDS

\* the server as it starts: the cooldown flag is read from the environment
LeaseInit ==
  /\ PreviewIdle
  /\ SelectorIdle
  /\ now = 0
  /\ cooldown_enabled \in BOOLEAN
  /\ profile = NewProfile
  /\ requests = <<>>
  /\ ViewIdle
  /\ SideIdle

\* time passes
Tick ==
  /\ now < MaxTicks * TickSeconds
  /\ now' = now + TickSeconds
  /\ UNCHANGED <<cooldown_enabled, profile, requests, previewVars, selectorVars, handlerVars, sideVars>>

\* a faulty plan_from_mood, which C38 must tell from the real one: a request
\* rejected with 429 restarts the clock of the lease it found
PlanFromMoodAcquireRestarts ==
  /\ Len(requests) < MaxRequests
  /\ \E mood_ok \in BOOLEAN, db_ok \in BOOLEAN :
       IF ~mood_ok
       THEN /\ requests' = Append(requests, Request("plan_from_mood", "done", 0, -1, 400))
            /\ profile' = profile
       ELSE IF ~db_ok
       THEN /\ requests' = Append(requests, Request("plan_from_mood", "done", 0, -1, 500))
            /\ profile' = profile
       ELSE IF CooldownActive(profile, cooldown_enabled, now) \/ LeaseHeld(profile, now)
       THEN /\ requests' = Append(requests, Request("plan_from_mood", "done", 0, -1, 429))
            /\ profile' = IF profile.plan_then_build_pending
                          THEN [profile EXCEPT !.plan_then_build_started_at = now]
                          ELSE profile
       ELSE /\ requests' = Append(requests, Request("plan_from_mood", "planning", 0, now, 0))
            /\ profile' = [profile EXCEPT !.plan_then_build_pending = TRUE,
                                          !.plan_then_build_started_at = now]
  /\ UNCHANGED <<now, cooldown_enabled, previewVars, selectorVars, handlerVars, sideVars>>

\* plan_from_mood up to the end of its transaction: the request is rejected
\* or is granted the lease
PlanFromMoodAcquire ==
  /\ Len(requests) < MaxRequests
  /\ \E mood_ok \in BOOLEAN, db_ok \in BOOLEAN :
       IF ~mood_ok
       THEN /\ requests' = Append(requests, Request("plan_from_mood", "done", 0, -1, 400))
            /\ profile' = profile
       ELSE IF ~db_ok
       THEN /\ requests' = Append(requests, Request("plan_from_mood", "done", 0, -1, 500))
            /\ profile' = profile
       ELSE IF CooldownActive(profile, cooldown_enabled, now) \/ LeaseHeld(profile, now)
       THEN /\ requests' = Append(requests, Request("plan_from_mood", "done", 0, -1, 429))
            /\ profile' = profile
       ELSE /\ requests' = Append(requests, Request("plan_from_mood", "planning", 0, now, 0))
            /\ profile' = [profile EXCEPT !.plan_then_build_pending = TRUE,
                                          !.plan_then_build_started_at = now]
  /\ UNCHANGED <<now, cooldown_enabled, previewVars, selectorVars, handlerVars, sideVars>>

\* plan_from_mood after the transaction: the planner answers or fails
PlanFromMoodFinish(i) ==
  /\ requests[i].view = "plan_from_mood"
  /\ requests[i].at = "planning"
  /\ \E planner_ok \in BOOLEAN :
       IF planner_ok
       THEN /\ requests' = [requests EXCEPT ![i].at = "done", ![i].status = 200]
            /\ profile' = profile
       ELSE /\ requests' = [requests EXCEPT ![i].at = "done", ![i].status = 502]
            /\ profile' = _clear_plan_pending(profile)
  /\ UNCHANGED <<now, cooldown_enabled, previewVars, selectorVars, handlerVars, sideVars>>

\* the plans a client holds and has not built yet, and 0 for a playlist_build
\* that follows no plan_from_mood (a "mood" body, or a plan kept from before)
BuildablePlans ==
  {0} \cup {s \in DOMAIN requests :
              /\ requests[s].view = "plan_from_mood"
              /\ requests[s].status = 200
              /\ \A b \in DOMAIN requests : requests[b].seq # s}

\* the bodies a playlist_build request can carry
BuildBodies == {"unparsable", "invalid_plan", "no_plan_no_mood", "mood", "plan",
                "bad_length", "public_and_collaborative"}

\* what playlist_build answers before it builds, by its body and by what the
\* planner, _get_profile and _require_scopes do; status 0: it goes on to build.
\* request.data raises on a body that does not parse (400) and int() raises on
\* a "length" that is no number (500): both lines stand before the try whose
\* finally clears the lease, and call _clear_plan_pending nowhere
BuildEarlyAnswer(body, planner_ok, spotify_connected, scopes_ok, cooling) ==
  IF body = "unparsable" THEN [status |-> 400, clears |-> FALSE]
  ELSE IF body \in {"invalid_plan", "no_plan_no_mood"} THEN [status |-> 400, clears |-> TRUE]
  ELSE IF body = "mood" /\ ~planner_ok THEN [status |-> 502, clears |-> TRUE]
  ELSE IF body = "bad_length" THEN [status |-> 500, clears |-> FALSE]
  ELSE IF body = "public_and_collaborative" THEN [status |-> 400, clears |-> TRUE]
  ELSE IF ~spotify_connected THEN [status |-> 401, clears |-> TRUE]
  ELSE IF cooling THEN [status |-> 429, clears |-> TRUE]
  ELSE IF ~scopes_ok THEN [status |-> 403, clears |-> TRUE]
  ELSE [status |-> 0, clears |-> FALSE]

\* playlist_build up to the start of the build: the body, the plan, the
\* profile, the cooldown and the scopes; every return clears the lease, the
\* two uncaught errors before the try do not, and the lease is never read
PlaylistBuildStart ==
  /\ Len(requests) < MaxRequests
  /\ \E body \in BuildBodies, s \in BuildablePlans,
        planner_ok \in BOOLEAN, spotify_connected \in BOOLEAN, scopes_ok \in BOOLEAN :
       LET a == BuildEarlyAnswer(body, planner_ok, spotify_connected, scopes_ok,
                                 CooldownActive(profile, cooldown_enabled, now))
           seq == IF body \in {"plan", "bad_length", "public_and_collaborative"} THEN s ELSE 0
       IN /\ requests' = Append(requests,
                           Request("playlist_build",
                                   IF a.status = 0 THEN "building" ELSE "done",
                                   seq, -1, a.status))
          /\ profile' = IF a.clears THEN _clear_plan_pending(profile) ELSE profile
  /\ UNCHANGED <<now, cooldown_enabled, previewVars, selectorVars, handlerVars, sideVars>>

\* how the build ends
BuildOutcomes == {"empty_preview", "created", "spotify_error", "exception"}

BuildStatus(outcome) ==
  CASE outcome = "empty_preview" -> 422
    [] outcome = "created" -> 200
    [] OTHER -> 500

\* playlist_build from the preview to its finally block, which clears the
\* lease whatever happened
PlaylistBuildFinish(i) ==
  /\ requests[i].view = "playlist_build"
  /\ requests[i].at = "building"
  /\ \E outcome \in BuildOutcomes :
       /\ requests' = [requests EXCEPT ![i].at = "done", ![i].status = BuildStatus(outcome)]
       /\ profile' = _clear_plan_pending(
                       IF outcome = "created"
                       THEN [profile EXCEPT !.last_playlist_create_time = now]
                       ELSE profile)
  /\ UNCHANGED <<now, cooldown_enabled, previewVars, selectorVars, handlerVars, sideVars>>

LeaseNext ==
  \/ Tick
  \/ PlanFromMoodAcquire
  \/ \E i \in DOMAIN requests : PlanFromMoodFinish(i)
  \/ PlaylistBuildStart
  \/ \E i \in DOMAIN requests : PlaylistBuildFinish(i)

SpecLease == LeaseInit /\ [][LeaseNext]_vars

(***************************************************************************)
(* The popularity floors: MIN_TRACK_POP is read from the environment when  *)
(* the module is loaded, and one candidate is put to the track-popularity  *)
(* test of the guarded passes and to the floor of the relaxed pass.        *)
(***************************************************************************)
\* the largest popularity the catalog reports and the thresholds take
POPULARITY_MAX == 100

FloorInit ==
  /\ PreviewIdle
  /\ SelectorIdle
  /\ LeaseIdle
  /\ ViewIdle
  /\ min_track_pop \in 0..POPULARITY_MAX
  /\ floor_cand = -1
  /\ floor_verdict = NoVerdict
  /\ LengthIdle
  /\ OAuthIdle
  /\ RefreshIdle

\* `tpop < min_track_pop` of _passes_popularity and `cand_pop < pop_thresh` of
\* the relaxed pass, on one candidate
FloorTest ==
  /\ floor_cand = -1
  /\ \E cand_pop \in 0..POPULARITY_MAX :
       /\ floor_cand' = cand_pop
       /\ floor_verdict' = [guarded |-> ~(cand_pop < min_track_pop),
                            relaxed |-> ~(cand_pop < pop_thresh(min_track_pop))]
  /\ UNCHANGED <<min_track_pop, previewVars, selectorVars, leaseVars, handlerVars, lengthVars, oauthVars, refreshVars>>

SpecFloor == FloorInit /\ [][FloorTest]_vars

(***************************************************************************)
(* The length of a playlist: make_plan_from_mood validates the model's     *)
(* JSON and sets the plan's length from the mood text, the view takes the  *)
(* length of the request body or of the plan and clamps it, and preview    *)
(* clamps what it is handed.                                               *)
(***************************************************************************)
\* \b of a regular expression, between text[k] and text[k + 1]
WordBoundary(text, k) ==
  (k >= 1 /\ IsWordChar(text[k])) # (k < Len(text) /\ IsWordChar(text[k + 1]))

\* (\d{1,3})\b tried at position i, the longest run first: the length of the
\* match, 0 when there is none
DigitsMatchAt(text, i) ==
  LET fits(k) == /\ i + k - 1 <= Len(text)
                 /\ \A j \in i..(i + k - 1) : IsDigit(text[j])
                 /\ WordBoundary(text, i + k - 1)
  IN IF fits(3) THEN 3 ELSE IF fits(2) THEN 2 ELSE IF fits(1) THEN 1 ELSE 0

\* re.search(r"\b(\d{1,3})\b", text) from position i on: group 1 in a
\* one-element sequence, <<>> for no match
RECURSIVE ReSearchNumber(_, _)
ReSearchNumber(text, i) ==
  IF i > Len(text) THEN <<>>
  ELSE IF WordBoundary(text, i - 1) /\ DigitsMatchAt(text, i) > 0
       THEN <<SubSeq(text, i, i + DigitsMatchAt(text, i) - 1)>>
       ELSE ReSearchNumber(text, i + 1)

\* a faulty inference, which C33 must tell from the real one: the number of
\* the text is returned as it stands
InferLengthUnclamped(text) ==
  LET m == ReSearchNumber(text, 1)
  IN IF m = <<>> THEN 10 ELSE ToInt(m[1])

infer_length_from_text(text) ==
  LET m == ReSearchNumber(text, 1)
  IN IF m = <<>> THEN 10
     ELSE LET n == ToInt(m[1])
          IN IF n <= 4 THEN 4 ELSE IF n >= 10 THEN 10 ELSE n

\* the moods typed
Moods ==
  {<<"c","h","i","l","l">>,
   <<"7"," ","s","o","n","g","s">>,
   <<"3"," ","h","i","t","s">>,
   <<"1","2"," ","t","r","a","c","k","s">>,
   <<"t","o","p"," ","1","0","0">>,
   <<"1","2","3","4"," ","5">>,
   <<"a","b","c","5"," ","8">>,
   <<"a","_","6"," ","9">>,
   <<"0">>,
   <<"6","-","2">>,
   <<" ","9"," ">>,
   <<"5","x">>,
   <<"0","0","7">>,
   <<"9","9"," ","o","r"," ","5">>}

\* the "length" values the model's JSON carries (-1: none)
EmittedLengths == {-1, 2, 7, 50}

\* the "length" values a request body carries (0: none)
BodyLengths == {0, 3, 8, 12}

LengthInit ==
  /\ PreviewIdle
  /\ SelectorIdle
  /\ LeaseIdle
  /\ ViewIdle
  /\ FloorIdle
  /\ len_pc = "planning"
  /\ mood_text \in Moods
  /\ emitted_length \in EmittedLengths
  /\ plan_length = -1
  /\ request_length = -1
  /\ preview_n = -1
  /\ OAuthIdle
  /\ RefreshIdle

\* plan_obj = MoodPlan.model_validate(data): length is Optional[int], whatever
\* the model wrote is taken
ValidatePlan ==
  /\ len_pc = "planning"
  /\ plan_length' = emitted_length
  /\ len_pc' = "validated"
  /\ UNCHANGED <<mood_text, emitted_length, request_length, preview_n>>
  /\ UNCHANGED <<previewVars, selectorVars, leaseVars, handlerVars, floorVars, oauthVars, refreshVars>>

\* plan_obj.length = infer_length_from_text(mood.strip(), default_len=10)
SetPlanLength ==
  /\ len_pc = "validated"
  /\ plan_length' = infer_length_from_text(Strip(mood_text))
  /\ len_pc' = "planned"
  /\ UNCHANGED <<mood_text, emitted_length, request_length, preview_n>>
  /\ UNCHANGED <<previewVars, selectorVars, leaseVars, handlerVars, floorVars, oauthVars, refreshVars>>

\* length = max(4, min(10, int(body.get("length") or plan.length or 10)))
ViewLength ==
  /\ len_pc = "planned"
  /\ \E body_length \in BodyLengths :
       LET given == IF body_length # 0 THEN body_length
                    ELSE IF plan_length \notin {-1, 0} THEN plan_length ELSE 10
       IN request_length' = Max2(4, Min2(10, given))
  /\ len_pc' = "requested"
  /\ UNCHANGED <<mood_text, emitted_length, plan_length, preview_n>>
  /\ UNCHANGED <<previewVars, selectorVars, leaseVars, handlerVars, floorVars, oauthVars, refreshVars>>

\* N = max(4, min(10, int(length or 10))) of preview
PreviewLength ==
  /\ len_pc = "requested"
  /\ preview_n' = ClampLength(request_length)
  /\ len_pc' = "clamped"
  /\ UNCHANGED <<mood_text, emitted_length, plan_length, request_length>>
  /\ UNCHANGED <<previewVars, selectorVars, leaseVars, handlerVars, floorVars, oauthVars, refreshVars>>

LengthNext ==
  \/ ValidatePlan
  \/ SetPlanLength
  \/ ViewLength
  \/ PreviewLength

SpecLength == LengthInit /\ [][LengthNext]_vars

(***************************************************************************)
(* The Spotify OAuth flow: auth_spotify creates a state row, and each      *)
(* auth_spotify_callback request reads the clock, claims the state it      *)
(* returns with one conditional UPDATE, exchanges the code for tokens,     *)
(* fetches the Spotify profile and saves the tokens. Requests interleave   *)
(* between these steps, and time passes.                                   *)
(***************************************************************************)
STATE_TTL_SECONDS == 600

MaxAuthStates == 1

MaxCallbacks == 2

\* a SpotifyAuthState row; state values are the row numbers, used_at -1: null
AuthState(expires_at, used_at) == [expires_at |-> expires_at, used_at |-> used_at]

\* a callback request: the state it returns with (0: one the server never
\* issued), where its handler stands, its reading of the clock, whether its
\* UPDATE claimed the row, and the status answered (0: not yet)
Callback(state, at, read_at, claimed, status) ==
  [state |-> state, at |-> at, now |-> read_at, claimed |-> claimed, status |-> status]

OAuthInit ==
  /\ PreviewIdle
  /\ SelectorIdle
  /\ now = 0
  /\ cooldown_enabled = FALSE
  /\ profile = NewProfile
  /\ requests = <<>>
  /\ ViewIdle
  /\ FloorIdle
  /\ LengthIdle
  /\ auth_states = <<>>
  /\ callbacks = <<>>
  /\ connections = <<>>
  /\ RefreshIdle

\* auth_spotify: a state row that expires STATE_TTL_SECONDS from now
AuthSpotify ==
  /\ Len(auth_states) < MaxAuthStates
  /\ auth_states' = Append(auth_states, AuthState(now + STATE_TTL_SECONDS, -1))
  /\ UNCHANGED <<callbacks, connections, previewVars, selectorVars, leaseVars, handlerVars,
                 floorVars, lengthVars, refreshVars>>

\* auth_spotify_callback up to `now = timezone.now()`: an error parameter, a
\* missing state or code, or a missing setting ends the request
CallbackArrives ==
  /\ Len(callbacks) < MaxCallbacks
  /\ \E st \in {0} \cup DOMAIN auth_states, early \in {0, 400, 500} :
       callbacks' = Append(callbacks,
                           IF early # 0 THEN Callback(st, "done", -1, FALSE, early)
                           ELSE Callback(st, "claiming", now, FALSE, 0))
  /\ UNCHANGED <<auth_states, connections, previewVars, selectorVars, leaseVars, handlerVars,
                 floorVars, lengthVars, refreshVars>>

\* a faulty claim, which C31 must tell from the real one: the UPDATE does not
\* filter on used_at
ClaimStateAgain(i) ==
  /\ callbacks[i].at = "claiming"
  /\ LET st == callbacks[i].state
         matches == /\ st \in DOMAIN auth_states
                    /\ auth_states[st].expires_at > callbacks[i].now
     IN IF matches
        THEN /\ auth_states' = [auth_states EXCEPT ![st].used_at = callbacks[i].now]
             /\ callbacks' = [callbacks EXCEPT ![i].at = "exchanging", ![i].claimed = TRUE]
        ELSE /\ auth_states' = auth_states
             /\ callbacks' = [callbacks EXCEPT ![i].at = "done", ![i].status = 400]
  /\ UNCHANGED <<connections, previewVars, selectorVars, leaseVars, handlerVars,
                 floorVars, lengthVars, refreshVars>>

\* filter(state=returned_state, used_at__isnull=True,
\* expires_at__gt=now).update(used_at=now): one statement of the database;
\* `claimed != 1` answers 400
ClaimState(i) ==
  /\ callbacks[i].at = "claiming"
  /\ LET st == callbacks[i].state
         matches == /\ st \in DOMAIN auth_states
                    /\ auth_states[st].used_at = -1
                    /\ auth_states[st].expires_at > callbacks[i].now
     IN IF matches
        THEN /\ auth_states' = [auth_states EXCEPT ![st].used_at = callbacks[i].now]
             /\ callbacks' = [callbacks EXCEPT ![i].at = "exchanging", ![i].claimed = TRUE]
        ELSE /\ auth_states' = auth_states
             /\ callbacks' = [callbacks EXCEPT ![i].at = "done", ![i].status = 400]
  /\ UNCHANGED <<connections, previewVars, selectorVars, leaseVars, handlerVars,
                 floorVars, lengthVars, refreshVars>>

\* the token exchange: a network error answers 502, a status other than 200
\* is handed on
ExchangeCode(i) ==
  /\ callbacks[i].at = "exchanging"
  /\ \E answer \in {200, 400, 502} :
       callbacks' = IF answer = 200
                    THEN [callbacks EXCEPT ![i].at = "fetching"]
                    ELSE [callbacks EXCEPT ![i].at = "done", ![i].status = answer]
  /\ UNCHANGED <<auth_states, connections, previewVars, selectorVars, leaseVars, handlerVars,
                 floorVars, lengthVars, refreshVars>>

\* GET /v1/me: a status other than 200 is handed on, else the tokens are
\* saved on the profile of the state row
FetchProfile(i) ==
  /\ callbacks[i].at = "fetching"
  /\ \E answer \in {200, 401} :
       IF answer = 200
       THEN /\ callbacks' = [callbacks EXCEPT ![i].at = "done", ![i].status = 200]
            /\ connections' = Append(connections, i)
       ELSE /\ callbacks' = [callbacks EXCEPT ![i].at = "done", ![i].status = answer]
            /\ connections' = connections
  /\ UNCHANGED <<auth_states, previewVars, selectorVars, leaseVars, handlerVars,
                 floorVars, lengthVars, refreshVars>>

OAuthNext ==
  \/ Tick
  \/ AuthSpotify
  \/ CallbackArrives
  \/ \E i \in DOMAIN callbacks : ClaimState(i)
  \/ \E i \in DOMAIN callbacks : ExchangeCode(i)
  \/ \E i \in DOMAIN callbacks : FetchProfile(i)

SpecOAuth == OAuthInit /\ [][OAuthNext]_vars

(***************************************************************************)
(* playlist_preview and playlist_build: one request, from its body to its  *)
(* response, with the catalog calls playlist_build makes after the         *)
(* preview.                                                                *)
(***************************************************************************)
\* the lengths the request asks for, after max(4, min(10, ...))
ViewLengths == {4, 5}

\* the profile rows a request can find: the lease pending or not, a playlist
\* built before or not
ViewProfiles ==
  {[plan_then_build_pending |-> pending,
    plan_then_build_started_at |-> IF pending THEN 0 ELSE -1,
    last_playlist_create_time |-> last] : pending \in BOOLEAN, last \in {-1, 0}}

\* requests.Response as _req reads it: the status code, the JSON document and
\* the headers (pairs of name and value)
CatalogAnswer(status_code, json, headers) ==
  [status_code |-> status_code, json |-> json, headers |-> headers]

\* what the catalog answers a call with
CatalogAnswers ==
  {CatalogAnswer(200, "document", {}),
   CatalogAnswer(429, "rate limited", {<<"Retry-After", "5">>}),
   CatalogAnswer(403, "forbidden", {}),
   CatalogAnswer(502, "bad gateway", {<<"retry-after", "7">>})}

\* SpotifyHttpError(status, payload): the error object keeps these two
\* attributes and nothing else
SpotifyHttpError(status, payload) ==
  [status |-> status, payload |-> payload]

\* SpotifyClient._req: a status outside 2xx raises SpotifyHttpError with the
\* status and the JSON document
_req(r) ==
  IF r.status_code < 200 \/ r.status_code >= 300
  THEN [raised |-> TRUE, e |-> SpotifyHttpError(r.status_code, r.json)]
  ELSE [raised |-> FALSE, doc |-> r.json]

\* headers.get(name), "" for None
HeaderGet(headers, name) ==
  IF \E h \in headers : h[1] = name
  THEN (CHOOSE h \in headers : h[1] = name)[2]
  ELSE ""

\* the answer the server gives when an exception leaves the view
Unhandled ==
  [status |-> 500, detail |-> "Internal Server Error", payload |-> "",
   debug |-> FALSE, added |-> 0, headers |-> {}]

\* `except SpotifyHttpError as e` of both views: e.headers is read first, and
\* an error object without that attribute raises AttributeError inside the
\* except clause, which no sibling clause catches
SpotifyErrorResponse(e) ==
  IF "headers" \notin DOMAIN e
  THEN Unhandled
  ELSE LET retry_after ==
             IF HeaderGet(e.headers, "Retry-After") # ""
             THEN HeaderGet(e.headers, "Retry-After")
             ELSE HeaderGet(e.headers, "retry-after")
       IN [status |-> e.status, detail |-> "spotify_error", payload |-> e.payload,
           debug |-> FALSE, added |-> 0,
           headers |-> IF retry_after # "" THEN {<<"Retry-After", retry_after>>} ELSE {}]

\* a Response without upstream data
Response(status, detail, debug, added) ==
  [status |-> status, detail |-> detail, payload |-> "", debug |-> debug,
   added |-> added, headers |-> {}]

\* the bodies a playlist_preview request can carry
PreviewBodies == {"unparsable", "no_plan", "invalid_plan", "bad_length", "plan"}

\* what playlist_preview answers before the preview; status 0: it goes on
PreviewEarlyAnswer(body, spotify_connected, scopes_ok) ==
  IF body = "unparsable" THEN 400
  ELSE IF body \in {"no_plan", "invalid_plan"} THEN 400
  ELSE IF body = "bad_length" THEN 500
  ELSE IF ~spotify_connected THEN 401
  ELSE IF ~scopes_ok THEN 403
  ELSE 0

\* a playlist_build that lets every preview through
QuotaNeverMissed(uris, len) ==
  FALSE

\* `not preview.uris or len(preview.uris) < length`
QuotaMissed(uris, len) ==
  uris = 0 \/ uris < len

\* a request arrives
ViewInit ==
  /\ PreviewIdle
  /\ SelectorIdle
  /\ now = 0
  /\ cooldown_enabled \in BOOLEAN
  /\ profile \in ViewProfiles
  /\ requests = <<>>
  /\ view_pc = "received"
  /\ view_name \in {"playlist_preview", "playlist_build"}
  /\ view_length \in ViewLengths
  /\ preview_uris = -1
  /\ spotify_calls = <<>>
  /\ playlist_rows = <<>>
  /\ upstream = NoUpstream
  /\ response = NoResponse
  /\ SideIdle

\* the request ends with response r; playlist_build's finally clears the lease
\* when the try was entered
ViewReturn(r, in_try, p) ==
  /\ view_pc' = "done"
  /\ response' = r
  /\ profile' = IF view_name = "playlist_build" /\ in_try THEN _clear_plan_pending(p) ELSE p

\* playlist_preview up to the preview: the body, the plan, the profile, the
\* scopes
PlaylistPreviewStart ==
  /\ view_pc = "received"
  /\ view_name = "playlist_preview"
  /\ \E body \in PreviewBodies, spotify_connected \in BOOLEAN, scopes_ok \in BOOLEAN :
       LET st == PreviewEarlyAnswer(body, spotify_connected, scopes_ok)
       IN IF st = 0
          THEN /\ view_pc' = "preview"
               /\ UNCHANGED <<response, profile>>
          ELSE ViewReturn(IF body = "bad_length" THEN Unhandled
                          ELSE Response(st, "rejected", FALSE, 0), FALSE, profile)
  /\ UNCHANGED <<view_name, view_length, preview_uris, spotify_calls, playlist_rows, upstream,
                 now, cooldown_enabled, requests, previewVars, selectorVars, sideVars>>

\* playlist_build up to the preview, as BuildEarlyAnswer gives it
PlaylistBuildEarly ==
  /\ view_pc = "received"
  /\ view_name = "playlist_build"
  /\ \E body \in BuildBodies, planner_ok \in BOOLEAN,
        spotify_connected \in BOOLEAN, scopes_ok \in BOOLEAN :
       LET a == BuildEarlyAnswer(body, planner_ok, spotify_connected, scopes_ok,
                                 CooldownActive(profile, cooldown_enabled, now))
       IN IF a.status = 0
          THEN /\ view_pc' = "preview"
               /\ UNCHANGED <<response, profile>>
          ELSE /\ view_pc' = "done"
               /\ response' = IF body = "bad_length" THEN Unhandled
                              ELSE Response(a.status, "rejected", FALSE, 0)
               /\ profile' = IF a.clears THEN _clear_plan_pending(profile) ELSE profile
  /\ UNCHANGED <<view_name, view_length, preview_uris, spotify_calls, playlist_rows, upstream,
                 now, cooldown_enabled, requests, previewVars, selectorVars, sideVars>>

\* what the builder does: it returns no uris, returns the N uris asked for, or
\* raises (the selector's error, the IndexError of the relaxed pass); every
\* catalog call of the builder is guarded, so no SpotifyHttpError leaves it
PreviewOutcomes == {"empty", "full", "raised"}

\* SpotifyClient(profile), the disallowed sets and builder.preview, then the
\* test of the preview: 422 with the debug record when the quota is missed;
\* playlist_preview answers 200 with the preview, playlist_build goes on
ViewPreview ==
  /\ view_pc = "preview"
  /\ \E client_ok \in BOOLEAN, outcome \in PreviewOutcomes :
       IF ~client_ok \/ outcome = "raised"
       THEN /\ ViewReturn(Response(500, "failed", FALSE, 0), TRUE, profile)
            /\ preview_uris' = preview_uris
       ELSE LET uris == IF outcome = "empty" THEN 0 ELSE view_length
            IN /\ preview_uris' = uris
               /\ IF view_name = "playlist_preview"
                  THEN IF uris = 0
                       THEN ViewReturn(Response(422, "No tracks matched", TRUE, 0), TRUE, profile)
                       ELSE ViewReturn(Response(200, "preview", TRUE, uris), TRUE, profile)
                  ELSE IF QuotaMissed(uris, view_length)
                       THEN ViewReturn(Response(422, "No tracks matched", TRUE, 0), TRUE, profile)
                       ELSE /\ view_pc' = "get_me"
                            /\ UNCHANGED <<response, profile>>
  /\ UNCHANGED <<view_name, view_length, spotify_calls, playlist_rows, upstream,
                 now, cooldown_enabled, requests, previewVars, selectorVars, sideVars>>

\* a faulty catalog call, which C39 must tell from the real one: an error of
\* add_items_to_playlist is swallowed and the request goes on
CatalogCallBestEffort(call, next) ==
  /\ view_pc = call
  /\ \E r \in CatalogAnswers :
       LET res == _req(r)
       IN /\ spotify_calls' = Append(spotify_calls,
                                     [call |-> call, ok |-> ~res.raised,
                                      uris |-> IF call = "add_items_to_playlist"
                                               THEN preview_uris ELSE 0])
          /\ IF res.raised /\ call # "add_items_to_playlist"
             THEN /\ upstream' = r
                  /\ ViewReturn(SpotifyErrorResponse(res.e), TRUE, profile)
             ELSE /\ upstream' = upstream
                  /\ view_pc' = next
                  /\ UNCHANGED <<response, profile>>
  /\ UNCHANGED <<view_name, view_length, preview_uris, playlist_rows,
                 now, cooldown_enabled, requests, previewVars, selectorVars, sideVars>>

\* one catalog call of playlist_build: client.get_me(), create_playlist(...)
\* or add_items_to_playlist(id, preview.uris); a SpotifyHttpError ends the
\* request in the except clause
CatalogCall(call, next) ==
  /\ view_pc = call
  /\ \E r \in CatalogAnswers :
       LET res == _req(r)
       IN /\ spotify_calls' = Append(spotify_calls,
                                     [call |-> call, ok |-> ~res.raised,
                                      uris |-> IF call = "add_items_to_playlist"
                                               THEN preview_uris ELSE 0])
          /\ IF res.raised
             THEN /\ upstream' = r
                  /\ ViewReturn(SpotifyErrorResponse(res.e), TRUE, profile)
             ELSE /\ upstream' = upstream
                  /\ view_pc' = next
                  /\ UNCHANGED <<response, profile>>
  /\ UNCHANGED <<view_name, view_length, preview_uris, playlist_rows,
                 now, cooldown_enabled, requests, previewVars, selectorVars, sideVars>>

\* PlaylistProfile.objects.create, the best-effort cache refresh (its errors
\* are swallowed), the last creation time (an error of its save is swallowed
\* too) and the 200 response
RecordPlaylist ==
  /\ view_pc = "record"
  /\ \E db_ok \in BOOLEAN, save_ok \in BOOLEAN :
       IF db_ok
       THEN /\ playlist_rows' = Append(playlist_rows, [length |-> preview_uris])
            /\ ViewReturn(Response(200, "playlist", TRUE, preview_uris), TRUE,
                          IF save_ok
                          THEN [profile EXCEPT !.last_playlist_create_time = now]
                          ELSE profile)
       ELSE /\ playlist_rows' = playlist_rows
            /\ ViewReturn(Response(500, "failed", FALSE, 0), TRUE, profile)
  /\ UNCHANGED <<view_name, view_length, preview_uris, spotify_calls, upstream,
                 now, cooldown_enabled, requests, previewVars, selectorVars, sideVars>>

ViewNext ==
  \/ PlaylistPreviewStart
  \/ PlaylistBuildEarly
  \/ ViewPreview
  \/ CatalogCall("get_me", "create_playlist")
  \/ CatalogCall("create_playlist", "add_items_to_playlist")
  \/ CatalogCall("add_items_to_playlist", "record")
  \/ RecordPlaylist

SpecView == ViewInit /\ [][ViewNext]_vars

(***************************************************************************)
(* _refresh_stale_playlists_for_user, which playlist_list calls before it  *)
(* pages: one loop over the user's rows, a fetch and at most one retry for *)
(* each stale row.                                                         *)
(***************************************************************************)
MaxRows == 2

\* a PlaylistProfile row as the loop reads it: whether it has a
\* spotify_playlist_id, whether is_cache_stale holds, and what became of it
PlaylistRow(has_id, stale) == [has_id |-> has_id, stale |-> stale, state |-> "cached"]

RowLists ==
  UNION {[1..n -> {PlaylistRow(FALSE, TRUE), PlaylistRow(TRUE, FALSE), PlaylistRow(TRUE, TRUE)}] :
           n \in 1..MaxRows}

\* what the catalog answers get_playlist with; status 0 stands for a request
\* that raised (a timeout, a connection error)
FetchAnswers ==
  CatalogAnswers \cup {CatalogAnswer(404, "not found", {}),
                       CatalogAnswer(429, "rate limited", {}),
                       CatalogAnswer(0, "timeout", {})}

RefreshInit ==
  /\ PreviewIdle
  /\ SelectorIdle
  /\ LeaseIdle
  /\ ViewIdle
  /\ FloorIdle
  /\ LengthIdle
  /\ OAuthIdle
  /\ refresh_pc = "start"
  /\ rows \in RowLists
  /\ row_idx = 0
  /\ fetch_log = <<>>
  /\ metrics = NoMetrics

\* SpotifyClient(profile): without a connection the metrics are returned as
\* they are
RefreshStart ==
  /\ refresh_pc = "start"
  /\ \E client_ok \in BOOLEAN :
       IF client_ok
       THEN refresh_pc' = "loop" /\ row_idx' = 1
       ELSE refresh_pc' = "returned" /\ row_idx' = row_idx
  /\ UNCHANGED <<rows, fetch_log, metrics>>
  /\ UNCHANGED <<previewVars, selectorVars, leaseVars, handlerVars, floorVars, lengthVars,
                 oauthVars>>

\* the outcome of one iteration on a stale row, by the answers to the fetch
\* (a1) and to the retry (a2) and by whether the database write succeeds:
\* what to count, what becomes of the row, whether the loop breaks, and
\* whether the retry was made. An exception other than the ones the inner
\* clauses name, the AttributeError of e2.headers on an error object without
\* headers among them, reaches the outer `except Exception` and counts as
\* skipped
RefreshOutcome(a1, a2, db_ok) ==
  LET skipped(retried) == [count |-> "skipped", state |-> "cached", break |-> FALSE,
                           retried |-> retried, retry_after |-> ""]
      success(retried) == IF db_ok
                          THEN [count |-> "refreshed", state |-> "refreshed", break |-> FALSE,
                                retried |-> retried, retry_after |-> ""]
                          ELSE skipped(retried)
      r1 == _req(a1)
      r2 == _req(a2)
  IN IF a1.status_code = 0 THEN skipped(FALSE)
     ELSE IF ~r1.raised THEN success(FALSE)
     ELSE IF r1.e.status = 404
          THEN IF db_ok
               THEN [count |-> "deleted", state |-> "deleted", break |-> FALSE,
                     retried |-> FALSE, retry_after |-> ""]
               ELSE skipped(FALSE)
     ELSE IF r1.e.status = 429
          THEN IF a2.status_code = 0 THEN skipped(TRUE)
               ELSE IF ~r2.raised THEN success(TRUE)
               ELSE IF r2.e.status = 429
                    THEN IF "headers" \notin DOMAIN r2.e THEN skipped(TRUE)
                         ELSE [count |-> "rate_limited", state |-> "cached", break |-> TRUE,
                               retried |-> TRUE,
                               retry_after |->
                                 IF HeaderGet(r2.e.headers, "Retry-After") # ""
                                 THEN HeaderGet(r2.e.headers, "Retry-After")
                                 ELSE IF HeaderGet(r2.e.headers, "retry-after") # ""
                                 THEN HeaderGet(r2.e.headers, "retry-after")
                                 ELSE IF HeaderGet(r1.e.headers, "Retry-After") # ""
                                 THEN HeaderGet(r1.e.headers, "Retry-After")
                                 ELSE HeaderGet(r1.e.headers, "retry-after")]
               ELSE skipped(TRUE)
     ELSE IF 500 <= r1.e.status /\ r1.e.status <= 599
          THEN IF a2.status_code = 0 \/ r2.raised THEN skipped(TRUE) ELSE success(TRUE)
     ELSE skipped(FALSE)

\* metrics after an iteration that ended with outcome o
Counted(m, o) ==
  CASE o.count = "refreshed" -> [m EXCEPT !.refreshed = @ + 1]
    [] o.count = "deleted" -> [m EXCEPT !.deleted = @ + 1]
    [] o.count = "skipped" -> [m EXCEPT !.skipped = @ + 1]
    [] OTHER -> [m EXCEPT !.rate_limited = TRUE, !.retry_after = o.retry_after]

\* one iteration of `for pp in rows`
RefreshRow ==
  /\ refresh_pc = "loop"
  /\ row_idx <= Len(rows)
  /\ LET pp == rows[row_idx]
         next == IF row_idx = Len(rows) THEN "returned" ELSE "loop"
     IN IF ~pp.has_id \/ ~pp.stale
        THEN /\ metrics' = [metrics EXCEPT !.skipped = @ + 1]
             /\ refresh_pc' = next
             /\ UNCHANGED <<rows, fetch_log>>
        ELSE \E a1 \in FetchAnswers, a2 \in FetchAnswers, db_ok \in BOOLEAN :
               LET o == RefreshOutcome(a1, a2, db_ok)
               IN /\ fetch_log' = fetch_log \o <<[row |-> row_idx, answer |-> a1]>>
                                     \o (IF o.retried THEN <<[row |-> row_idx, answer |-> a2]>>
                                         ELSE <<>>)
                  /\ metrics' = Counted(metrics, o)
                  /\ rows' = [rows EXCEPT ![row_idx].state = o.state]
                  /\ refresh_pc' = IF o.break THEN "returned" ELSE next
  /\ row_idx' = row_idx + 1
  /\ UNCHANGED <<previewVars, selectorVars, leaseVars, handlerVars, floorVars, lengthVars,
                 oauthVars>>

RefreshNext ==
  \/ RefreshStart
  \/ RefreshRow

SpecRefresh == RefreshInit /\ [][RefreshNext]_vars

(***************************************************************************)
(* Properties of PlaylistBuilder.preview, under Spec.                      *)
(***************************************************************************)
\* the preview has returned a non-empty result
Succeeded == pc = "done" /\ result.uris # <<>>

\* C1: a preview that returns gives uris that are empty or exactly
\* N = max(4, min(10, length)) long, and tracks in step with uris.
C1_ExactLengthOrEmpty ==
  pc = "done" =>
    /\ Len(result.uris) \in {0, Max2(4, Min2(10, length))}
    /\ Len(result.tracks) = Len(result.uris)
    /\ \A i \in DOMAIN result.uris : result.tracks[i].uri = result.uris[i]

\* a full list of 5 that the relaxed pass completed after stage 3 and the
\* backfill pass had contributed
C1_Witness ==
  /\ Succeeded
  /\ length = 5
  /\ Len(result.uris) = 5
  /\ chosen # <<>>
  /\ queries # <<>>
  /\ deduped_queries # <<>>

\* C2: no track whose id is in disallowed_ids is in the result.
C2_NoDisallowedId ==
  pc = "done" =>
    /\ \A i \in DOMAIN result.tracks : result.tracks[i].id \notin disallowed_ids
    /\ \A t \in Catalogue : t.id \in disallowed_ids => t.uri \notin Range(result.uris)

\* a non-empty result of a call whose library held a disallowed track and
\* whose advisory picks named it
C2_Witness ==
  /\ Succeeded
  /\ filtered_from_pool > 0
  /\ \E i \in DOMAIN picks : picks[i].library_id \in disallowed_ids

\* C3 (as the specification states it): no track whose title and primary
\* artist match a disallowed pair, case-insensitively, is in the result.
C3_NoDisallowedTitleArtist ==
  pc = "done" =>
    \A i \in DOMAIN result.tracks, j \in DOMAIN disallowed_title_artist :
      ~ /\ result.tracks[i].artists # <<>>
        /\ Lower(result.tracks[i].name) = Lower(disallowed_title_artist[j].title)
        /\ Lower(result.tracks[i].artists[1].name) = Lower(disallowed_title_artist[j].artist)

\* C4: no two tracks of the result have the same catalogue id or uri.
C4_DistinctIds ==
  pc = "done" =>
    \A i, j \in DOMAIN result.tracks :
      i # j => /\ result.tracks[i].id # result.tracks[j].id
               /\ result.uris[i] # result.uris[j]

\* a non-empty result after the picks had put one id into chosen twice
C4_Witness ==
  /\ Succeeded
  /\ \E i, j \in DOMAIN chosen : i # j /\ chosen[i].id = chosen[j].id

\* C5 (as the specification states it): no two tracks of the result are the
\* same song by content key, the key being that of the catalogue record
\* (the cross-catalogue code when carried, else title, artist and duration).
C5_DistinctContentKeys ==
  pc = "done" =>
    \A i, j \in DOMAIN result.tracks :
      i # j => _content_key(CatalogueTrack(result.tracks[i].id))
                 # _content_key(CatalogueTrack(result.tracks[j].id))

\* C6: under the plan's explicit_allowed "no", no track of the result is
\* explicit, whatever the user's own preference.
C6_NoExplicitWhenForbidden ==
  pc = "done" /\ plan.explicit_allowed = "no" =>
    \A i \in DOMAIN result.tracks : ~result.tracks[i].explicit

\* a non-empty result under "no" for a user who does not filter explicit
\* content, after the picks named an explicit library track
C6_Witness ==
  /\ Succeeded
  /\ plan.explicit_allowed = "no"
  /\ user_wants_clean = "False"
  /\ \E i \in DOMAIN picks :
       /\ picks[i].library_id \in PoolIds(pool)
       /\ PoolGet(pool, picks[i].library_id).explicit

\* C7 (as the specification states it): a structural failure of both
\* advisory attempts does not fail the preview.
C7_SelectorFailureTolerated ==
  ~(pc = "raised" /\ error = "SelectorInvalid")

\* C8 (as the specification states it): once the advisory step has returned
\* a valid result, preview raises no error.
C8_NoErrorAfterValidAdvisory ==
  picks # NoPicks => pc # "raised"

\* the best popularity among the artists of track t, as far as the builder
\* has learnt it: an artist whose metadata it has not got counts as 0
KnownBestArtistPop(t) ==
  LET pops == {ArtistPop(artist_cache, t.artists[i].id) : i \in DOMAIN t.artists} \cup {0}
  IN CHOOSE p \in pops : \A x \in pops : x <= p

\* some artist of track t has, as far as the builder has learnt, a genre that
\* contains one of the plan's genre tokens
KnownGenreMatch(t) ==
  \E i \in DOMAIN t.artists :
    LET genres == ArtistGenres(artist_cache, t.artists[i].id)
    IN \E g \in DOMAIN genres, k \in DOMAIN allowed_genre_tokens :
         Contains(Lower(genres[g]), Lower(allowed_genre_tokens[k]))

\* C15 (as the specification states it): when the plan implies a genre and
\* every candidate track, of the library and of the search results, has a
\* best artist popularity below MIN_ARTIST_POP and no artist of a matching
\* genre, preview returns the empty result.
C15_EmptyWhenNoArtistPasses ==
  /\ pc = "done"
  /\ allowed_genre_tokens # <<>>
  /\ \A t \in Catalogue : KnownBestArtistPop(t) < MIN_ARTIST_POP /\ ~KnownGenreMatch(t)
  => result.uris = <<>>

\* the clean-only decision the resolution order asks for: the plan's "yes" or
\* "no" first, else the user's filter_enabled, else (lookup failed) not clean
CleanOnlyExpected ==
  CASE plan.explicit_allowed = "yes" -> FALSE
    [] plan.explicit_allowed = "no" -> TRUE
    [] OTHER -> user_wants_clean = "True"

\* C17: the clean-only decision follows the resolution order. The plan's
\* explicit_allowed decides when it is "yes" or "no", whatever the user's
\* preference; when it is "user_pref" or absent the user's filter_enabled
\* decides; when the profile lookup failed explicit content is allowed. The
\* decision is the one reported, and no explicit track is chosen, held or
\* returned when it is clean-only.
C17_ExplicitResolutionOrder ==
  /\ pc = "done" => result.debug.common.resolved_clean_only = CleanOnlyExpected
  /\ CleanOnlyExpected =>
       /\ \A i \in DOMAIN chosen : ~chosen[i].explicit
       /\ \A i \in DOMAIN uniq : ~uniq[i].explicit
       /\ \A i \in DOMAIN result.tracks : ~result.tracks[i].explicit

\* the plan leaves the decision to the user, the profile lookup failed, and
\* an explicit track was returned
C17_Witness ==
  /\ pc = "done"
  /\ plan.explicit_allowed \in {"user_pref", "none"}
  /\ user_wants_clean = "None"
  /\ \E i \in DOMAIN result.tracks : result.tracks[i].explicit

\* C18: each fallback tier runs only when the prior tier left the quota
\* unmet. A search call of the backfill or of the relaxed pass is made only
\* while fewer than N tracks are held; as soon as N tracks are held preview
\* returns, so a call satisfied at stage 3 (dedup and clamp) makes no search
\* call of either pass, and the relaxed pass makes none when the backfill
\* pass reached N.
C18_TierOnlyWhenQuotaUnmet ==
  [][/\ search_calls'.backfill > search_calls.backfill =>
          pc = "backfill" /\ Len(uniq) < N
     /\ search_calls'.relaxed > search_calls.relaxed =>
          pc = "relaxed" /\ Len(uniq) < N
     /\ Len(uniq') >= N => pc' = "done"
     /\ pc = "dedup" /\ Len(uniq') >= N =>
          search_calls'.backfill = 0 /\ search_calls'.relaxed = 0
     /\ pc = "backfill" /\ Len(uniq') >= N => search_calls'.relaxed = 0]_vars

\* stage 3 held N tracks and preview returned them with no search call of
\* the backfill or relaxed pass
C18_Witness ==
  /\ pc = "done"
  /\ Len(result.uris) = N
  /\ picks # NoPicks
  /\ search_calls.backfill = 0
  /\ search_calls.relaxed = 0

\* track t passes the guards: its popularity, the best popularity among its
\* artists (0 for an artist the service does not know), and an artist genre
\* that contains one of the tokens when there are tokens
PassesGuards(t, tokens) ==
  LET known == {i \in DOMAIN t.artists : t.artists[i].id \in DOMAIN ArtistDB}
  IN /\ t.popularity >= MIN_TRACK_POP
     /\ \E i \in known : ArtistDB[t.artists[i].id].popularity >= MIN_ARTIST_POP
     /\ tokens # <<>> =>
          \E i \in known :
            LET genres == ArtistDB[t.artists[i].id].genres
            IN \E g \in DOMAIN genres, k \in DOMAIN tokens :
                 Contains(Lower(genres[g]), Lower(tokens[k]))

\* how many of the held tracks came from the library picks, the outside
\* picks and the backfill pass: all of them until the relaxed pass starts,
\* and N - need from then on (need is what the backfill pass left open)
StrictHeld == Min2(Len(uniq), N - need)

\* C19: the advisory output never bypasses the guards. Every track chosen
\* from a library pick or an outside pick, and every track held or returned
\* that came from them or from the backfill pass, has popularity >=
\* MIN_TRACK_POP, a best artist popularity >= MIN_ARTIST_POP and, when the
\* plan yields genre tokens, an artist genre containing a token; this holds
\* for the artist metadata the builder fetched, an artist it could not fetch
\* counting as popularity 0 and no genres.
C19_GuardsNeverBypassed ==
  LET tokens == _derive_genre_tokens(plan)
      Guarded(t) == /\ PassesGuards(t, tokens)
                    /\ KnownBestArtistPop(t) >= MIN_ARTIST_POP
                    /\ tokens # <<>> => KnownGenreMatch(t)
  IN /\ \A i \in DOMAIN chosen : Guarded(chosen[i])
     /\ \A i \in 1..StrictHeld : Guarded(uniq[i])
     /\ \A i \in DOMAIN result.tracks : i <= StrictHeld => Guarded(result.tracks[i])

\* a full result for a plan with genre tokens that holds a library pick, a
\* resolved outside pick and a backfill track, after candidates were rejected
\* by the guards
C19_Witness ==
  /\ pc = "done"
  /\ Len(result.uris) = N
  /\ allowed_genre_tokens # <<>>
  /\ \E i \in DOMAIN picks, j \in DOMAIN result.tracks :
       picks[i].library_id = result.tracks[j].id
  /\ outside_resolved > 0
  /\ search_calls.backfill > 0
  /\ search_calls.relaxed = 0
  /\ rejected_low_pop_or_genre > 0
  /\ StrictHeld = N

\* C20: every track the relaxed pass accepts has popularity >=
\* max(10, MIN_TRACK_POP div 2), which is 17 for MIN_TRACK_POP = 35, is not
\* explicit when clean-only applies, has an id that is neither held nor
\* disallowed and a content key that is not among the keys the builder
\* holds (seen_keys) nor that of a track the pass took before it; the tracks
\* held before stay
\* as they are, and nothing else is asked of the candidate (no genre guard,
\* no artist-popularity guard).
C20_RelaxedAcceptance ==
  [][pc = "relaxed" =>
       /\ MIN_TRACK_POP = 35 => RelaxedFloor = 17
       /\ Len(uniq') >= Len(uniq)
       /\ SubSeq(uniq', 1, Len(uniq)) = uniq
       /\ \A i \in (Len(uniq) + 1)..Len(uniq') :
            LET cand == CatalogueTrack(uniq'[i].id)
                key == _content_key(cand)
            IN /\ uniq'[i] = _compact_track(cand)
               /\ cand.popularity >= Max2(10, MIN_TRACK_POP \div 2)
               /\ CleanOnlyExpected => ~cand.explicit
               /\ cand.id # ""
               /\ cand.id \notin seen
               /\ cand.id \notin disallowed_ids
               /\ key \notin seen_keys
               /\ \A j \in 1..(i - 1) : uniq'[j].id # cand.id
               /\ \A j \in (Len(uniq) + 1)..(i - 1) :
                    _content_key(CatalogueTrack(uniq'[j].id)) # key]_vars

\* the relaxed pass filled the quota with a track below MIN_TRACK_POP whose
\* artists pass neither the popularity nor the genre guard as far as the
\* builder knows
C20_Witness ==
  /\ pc = "done"
  /\ Len(result.uris) = N
  /\ search_calls.relaxed > 0
  /\ allowed_genre_tokens # <<>>
  /\ \E i \in DOMAIN result.tracks :
       /\ i > StrictHeld
       /\ result.tracks[i].popularity < MIN_TRACK_POP
       /\ result.tracks[i].popularity >= RelaxedFloor
       /\ KnownBestArtistPop(result.tracks[i]) < MIN_ARTIST_POP
       /\ ~KnownGenreMatch(result.tracks[i])

\* C21: the tracks one backfill or relaxed-pass query adds to the result stand
\* behind the tracks held before, which stay as they were, and in
\* popularity-descending order: of two tracks the query added, the earlier one
\* is at least as popular as the later one.
C21_AcceptedInPopularityOrder ==
  [][\/ search_calls'.backfill > search_calls.backfill
     \/ search_calls'.relaxed > search_calls.relaxed
     => /\ Len(uniq') >= Len(uniq)
        /\ SubSeq(uniq', 1, Len(uniq)) = uniq
        /\ \A i, j \in (Len(uniq) + 1)..Len(uniq') :
             i < j => uniq'[i].popularity >= uniq'[j].popularity]_vars

\* a full result whose tracks all came from the one backfill query that was
\* searched, two of them with different popularity
C21_Witness ==
  /\ pc = "done"
  /\ chosen = <<>>
  /\ search_calls.backfill = 1
  /\ search_calls.relaxed = 0
  /\ Len(result.tracks) = N
  /\ \E i, j \in DOMAIN result.tracks :
       i < j /\ result.tracks[i].popularity > result.tracks[j].popularity

\* the guard of a library pick: _passes_popularity, then
\* _artist_genres_match, the artist service answering both calls with resp
LibraryGuard(cache, track, tokens, resp) ==
  LET pp == _passes_popularity(cache, track, MIN_TRACK_POP, MIN_ARTIST_POP, resp)
      gm == _artist_genres_match(pp.cache, track, tokens, resp)
  IN pp.ok /\ gm.ok

\* C22: the guard of the backfill pass is the guard of the library picks.
\* Wherever preview is about to guard a library pick or the items of a
\* backfill query, with the genre tokens of its plan, the artist cache as it
\* stands there and whatever the artist service answers,
\* _apply_artist_pop_and_genre_filters keeps a catalogue track exactly when
\* _passes_popularity and _artist_genres_match both accept it, and of a search
\* answer it keeps exactly the items those two accept, in the same order.
C22_SameGuard ==
  pc \in {"library_picks", "backfill"} =>
    \A resp \in GetArtistsResponses :
      LET Kept(items) ==
            _apply_artist_pop_and_genre_filters(artist_cache, items, allowed_genre_tokens,
                                                MIN_TRACK_POP, MIN_ARTIST_POP, resp).kept
          Accepts(t) == LibraryGuard(artist_cache, t, allowed_genre_tokens, resp)
      IN /\ \A t \in Catalogue : (Kept(<<t>>) = <<t>>) <=> Accepts(t)
         /\ \A sr \in SearchAnswers :
              Kept(sr.items) = SelectSeq(sr.items, Accepts)

\* a preview with genre tokens in which both guards ran: a library pick passed
\* the first, the backfill pass rejected candidates with the second, and with
\* the artists known by then the guard keeps one catalogue track whose first
\* artist is unknown and drops another for its artists
C22_Witness ==
  /\ pc = "done"
  /\ allowed_genre_tokens # <<>>
  /\ artist_cache # <<>>
  /\ \E i \in DOMAIN chosen : chosen[i].id \in PoolIds(pool)
  /\ search_calls.backfill > 0
  /\ rejected_low_pop_or_genre > 0
  /\ \E t, u \in Catalogue :
       /\ t.artists[1].id \notin DOMAIN artist_cache
       /\ LibraryGuard(artist_cache, t, allowed_genre_tokens, [ok |-> FALSE, docs |-> <<>>])
       /\ u.popularity >= MIN_TRACK_POP
       /\ ~LibraryGuard(artist_cache, u, allowed_genre_tokens, [ok |-> FALSE, docs |-> <<>>])

\* the tag and theme text of a plan, and whether it names a genre family
TagThemeText(p) == Lower(Join(p.semantic_tags \o p.themes))

FamilyNamed(i, text) == \E k \in DOMAIN genre_map[i] : Contains(text, genre_map[i][k])

\* C23 (as the specification states it): the genre tokens preview derives hold
\* the whole synonym set of a family exactly when a synonym of that family
\* occurs in the tag or theme text of the plan, a family named only in the
\* themes included, each token once and no other token; when no family is
\* named the list is empty and the genre guard passes every track.
C23_TokensFromTagsAndThemes ==
  pc \in {"library_picks", "outside_picks", "dedup", "backfill", "relaxed_start",
          "relaxed", "done"} =>
    LET text == TagThemeText(plan)
        named == {i \in DOMAIN genre_map : FamilyNamed(i, text)}
    IN /\ \A i \in DOMAIN genre_map :
            i \in named <=> Range(genre_map[i]) \subseteq Range(allowed_genre_tokens)
       /\ Range(allowed_genre_tokens) \subseteq UNION {Range(genre_map[i]) : i \in named}
       /\ Cardinality(Range(allowed_genre_tokens)) = Len(allowed_genre_tokens)
       /\ named = {} =>
            \A t \in Catalogue, resp \in GetArtistsResponses :
              _artist_genres_match(artist_cache, t, allowed_genre_tokens, resp).ok

\* C26: a failing source contributes nothing and aborts nothing. When preview
\* collects the pool, a source whose fetch failed has count 0 and tags no
\* entry, every track with id and uri that is not disallowed and that a
\* source which answered holds is in the pool, and preview goes on to the
\* selector unless a pool entry makes the library snapshot invalid. A search
\* call that fails, in outside-pick resolution, backfill or the relaxed pass,
\* does what a search without items does: no error is raised, the tracks,
\* ids and keys held, the artist cache and the rejection count stay as they
\* are, an outside pick is recorded as unresolved, and the next pick or query
\* is tried, the pass ending only when none is left.
C26_FailingSourceContributesNothing ==
  [][/\ pc = "start" =>
          /\ \A s \in DOMAIN Sources :
               IF library'[s].ok
               THEN \A k \in DOMAIN library'[s].items :
                      LET t == library'[s].items[k]
                      IN t.id # "" /\ t.uri # "" /\ t.id \notin disallowed_ids
                           => t.id \in PoolIds(pool')
               ELSE /\ source_counts'[Sources[s]] = 0
                    /\ \A i \in DOMAIN pool' : pool'[i].source # Sources[s]
          /\ pc' = "raised" => ~LibraryItemsValid(pool')
     /\ search_calls'.failed > search_calls.failed =>
          /\ pc' # "raised"
          /\ error' = error
          /\ <<chosen', uniq', seen', seen_keys'>> = <<chosen, uniq, seen, seen_keys>>
          /\ artist_cache' = artist_cache
          /\ rejected_low_pop_or_genre' = rejected_low_pop_or_genre
          /\ outside_resolved' = outside_resolved
          /\ pc = "outside_picks" =>
               /\ outside_requested' = outside_requested + 1
               /\ missing_resolutions' =
                    Append(missing_resolutions, TitleArtist(picks[idx].title, picks[idx].artist))
               /\ IF idx < Len(picks) THEN pc' = pc /\ idx' = idx + 1 ELSE pc' = "dedup"
          /\ pc = "backfill" =>
               /\ need' = need
               /\ IF idx < Len(queries) THEN pc' = pc /\ idx' = idx + 1
                  ELSE pc' = "relaxed_start"
          /\ pc = "relaxed" =>
               /\ fallback_needed' = fallback_needed
               /\ IF idx < Len(deduped_queries) THEN pc' = pc /\ idx' = idx + 1
                  ELSE pc' = "done" /\ result'.uris = <<>>]_vars

\* a full result of a preview in which one library fetch failed, the other
\* sources filled the pool, two searches failed and later ones added tracks
C26_Witness ==
  /\ pc = "done"
  /\ Len(result.uris) = N
  /\ \E s \in DOMAIN Sources : ~library[s].ok
  /\ Len(pool) >= 3
  /\ search_calls.failed >= 2
  /\ search_calls.backfill + search_calls.relaxed > search_calls.failed
  /\ Len(uniq) > Len(chosen)

\* how many tracks stage 3 (dedup and clamp of the resolved picks) held
Stage3Held ==
  Len(DedupWalk([uniq |-> <<>>, seen |-> SeenSeed(disallowed_ids), seen_keys |-> {}],
                chosen, N).uniq)

\* C28 (as the specification states it): the debug record of every preview
\* that returns tells whether a fallback tier fired: fallback_used is true
\* exactly when stage 3 held fewer than N tracks, so that the backfill or the
\* relaxed pass was entered, whether the result is full or empty.
C28_FallbackUsedTellsTier ==
  pc = "done" => (result.debug.fallback_used <=> Stage3Held < N)

\* how many candidates the relaxed pass drops for their popularity: those
\* that reach the floor test and are below the floor
RECURSIVE FloorDrops(_, _, _)
FloorDrops(acc, items, clean) ==
  IF items = <<>> \/ acc.need <= 0 THEN 0
  ELSE LET cand == Head(items)
           key == _content_key(cand)
       IN IF IsDuplicate(cand.id, key, acc.seen, acc.seen_keys) \/ (clean /\ cand.explicit)
          THEN FloorDrops(acc, Tail(items), clean)
          ELSE IF cand.popularity < RelaxedFloor
          THEN 1 + FloorDrops(acc, Tail(items), clean)
          ELSE FloorDrops([uniq |-> Append(acc.uniq, _compact_track(cand)),
                           seen |-> acc.seen \cup {cand.id},
                           seen_keys |-> acc.seen_keys \cup {key},
                           need |-> acc.need - 1], Tail(items), clean)

\* the library pick now looked at reaches the guard: it names a pool track
\* that is neither disallowed nor barred as explicit
LibraryPickGuarded ==
  LET lid == picks[idx].library_id
  IN /\ lid # ""
     /\ lid \in PoolIds(pool)
     /\ lid \notin disallowed_ids
     /\ ~(want_clean /\ PoolGet(pool, lid).explicit)

\* C29 (as the specification states it): every guard rejection is counted.
\* The counter that becomes debug.rejected_low_pop grows, in every step of
\* preview, by the number of candidates the popularity or genre guard dropped
\* in that step: by 1 when a library pick is dropped by the guard, by the
\* number of search candidates the guard dropped when an outside pick is
\* resolved or a backfill query is run, and by the number of candidates below
\* the relaxed floor when a relaxed-pass query is run; debug.rejected_low_pop
\* is that counter.
C29_EveryGuardRejectionCounted ==
  [][/\ pc = "library_picks" =>
          rejected_low_pop_or_genre' - rejected_low_pop_or_genre =
            IF LibraryPickGuarded /\ chosen' = chosen THEN 1 ELSE 0
     /\ pc = "outside_picks" /\ search_calls'.outside > search_calls.outside =>
          \E sr \in SearchAnswers, ar \in GetArtistsResponses :
            LET early == SelectSeq(_safe_search(sr), LAMBDA cand :
                           cand.id # "" /\ cand.id \notin seen /\ ~(want_clean /\ cand.explicit))
                f == _apply_artist_pop_and_genre_filters(artist_cache, early,
                       allowed_genre_tokens, MIN_TRACK_POP, MIN_ARTIST_POP, ar)
            IN /\ artist_cache' = f.cache
               /\ rejected_low_pop_or_genre' - rejected_low_pop_or_genre =
                    Len(early) - Len(f.kept)
     /\ pc = "backfill" =>
          \E sr \in SearchAnswers, ar \in GetArtistsResponses :
            LET items == _safe_search(sr)
                f == _apply_artist_pop_and_genre_filters(artist_cache, SortByPopDesc(items),
                       allowed_genre_tokens, MIN_TRACK_POP, MIN_ARTIST_POP, ar)
            IN /\ artist_cache' = f.cache
               /\ rejected_low_pop_or_genre' - rejected_low_pop_or_genre =
                    Len(items) - Len(f.kept)
     /\ pc = "relaxed" =>
          \E sr \in SearchAnswers :
            LET items == SortByPopDesc(_safe_search(sr))
                acc == [uniq |-> uniq, seen |-> seen, seen_keys |-> seen_keys,
                        need |-> fallback_needed]
            IN /\ uniq' = RelaxedAccept(acc, items, want_clean).uniq
               /\ rejected_low_pop_or_genre' - rejected_low_pop_or_genre =
                    FloorDrops(acc, items, want_clean)
     /\ pc' = "done" => result'.debug.common.rejected_low_pop = rejected_low_pop_or_genre']_vars

\* the picks of ps that the outside-pick loop sends to the search: no
\* library_id, and both a title and an artist
OutsideRequests(ps) ==
  {i \in DOMAIN ps : ps[i].library_id = "" /\ ps[i].title # <<>> /\ ps[i].artist # <<>>}

\* C35: outside_requested = outside_resolved + the number of
\* missing_resolutions, in every state and in the debug block returned;
\* outside_requested is the number of advisory picks without library_id that
\* carry both a title and an artist; and a step of the outside-pick loop raises
\* no error: a pick it sends to the search either adds one track to chosen or
\* is recorded, with its title and artist, in missing_resolutions.
C35_OutsideCounters ==
  [][/\ outside_requested' = outside_resolved' + Len(missing_resolutions')
     /\ pc = "outside_picks" =>
          /\ pc' \in {"outside_picks", "dedup"}
          /\ error' = error
          /\ outside_requested' = Cardinality(OutsideRequests(SubSeq(picks, 1, idx)))
          /\ idx \in OutsideRequests(picks) /\ Len(chosen') = Len(chosen) =>
               missing_resolutions' =
                 Append(missing_resolutions, TitleArtist(picks[idx].title, picks[idx].artist))
          /\ idx \notin OutsideRequests(picks) =>
               <<chosen', missing_resolutions'>> = <<chosen, missing_resolutions>>
     /\ pc' \in {"dedup", "backfill", "relaxed_start", "relaxed"} =>
          outside_requested' = Cardinality(OutsideRequests(picks'))
     /\ pc' = "done" /\ "common" \in DOMAIN result'.debug =>
          /\ result'.debug.common.outside_requested = Cardinality(OutsideRequests(picks'))
          /\ result'.debug.common.outside_requested =
               result'.debug.common.outside_resolved
                 + Len(result'.debug.common.missing_resolutions)]_vars

\* a preview returned after two outside picks, one resolved and one recorded
\* as missing
C35_Witness ==
  /\ pc = "done"
  /\ result.tracks # <<>>
  /\ result.debug.common.outside_requested = 2
  /\ result.debug.common.outside_resolved = 1
  /\ Len(result.debug.common.missing_resolutions) = 1

\* u holds elements of c in the order c has them
RECURSIVE IsSubsequence(_, _)
IsSubsequence(u, c) ==
  IF u = <<>> THEN TRUE
  ELSE IF c = <<>> THEN FALSE
  ELSE IF Head(u) = Head(c) THEN IsSubsequence(Tail(u), Tail(c))
  ELSE IsSubsequence(u, Tail(c))

\* C34: the result is in assembly order by stage. The library-pick loop only
\* appends to chosen, the pool track of the pick looked at, while no outside
\* pick is resolved yet; the outside-pick loop, which runs after it whatever
\* the order of the picks, only appends to chosen; stage 3 keeps tracks of
\* chosen in the order chosen has them; the backfill pass and after it the
\* relaxed pass only append behind the tracks held; and the result returned is
\* the list so assembled.
C34_AssemblyOrder ==
  [][/\ pc = "library_picks" =>
          /\ outside_resolved' = 0
          /\ \/ chosen' = chosen
             \/ /\ picks[idx].library_id \in PoolIds(pool)
                /\ chosen' = Append(chosen, _compact_track(PoolGet(pool, picks[idx].library_id)))
          /\ pc' \in {"library_picks", "outside_picks"}
     /\ pc = "outside_picks" =>
          /\ \/ chosen' = chosen /\ outside_resolved' = outside_resolved
             \/ /\ Len(chosen') = Len(chosen) + 1
                /\ SubSeq(chosen', 1, Len(chosen)) = chosen
                /\ outside_resolved' = outside_resolved + 1
          /\ pc' \in {"outside_picks", "dedup"}
     /\ pc = "dedup" => IsSubsequence(uniq', chosen) /\ chosen' = chosen
     /\ pc \in {"backfill", "relaxed"} =>
          /\ Len(uniq') >= Len(uniq)
          /\ SubSeq(uniq', 1, Len(uniq)) = uniq
          /\ pc = "relaxed" => pc' \in {"relaxed", "done"}
     /\ pc' = "done" /\ result'.tracks # <<>> => result'.tracks = uniq']_vars

\* a full result of an advisory response whose first pick is an outside pick
\* and whose second is a library pick: it holds the library track first, then
\* the resolved outside track, then tracks of the backfill pass
C34_Witness ==
  /\ pc = "done"
  /\ Len(result.tracks) = N
  /\ Len(picks) >= 2
  /\ picks[1].library_id = "" /\ picks[2].library_id # ""
  /\ outside_resolved = 1
  /\ Len(chosen) = 2
  /\ result.tracks[1] = chosen[1]
  /\ result.tracks[1].id = picks[2].library_id
  /\ result.tracks[2] = chosen[2]
  /\ search_calls.backfill > 0
  /\ search_calls.relaxed = 0

(***************************************************************************)
(* Properties of preview over the ten-track library, under SpecPool.       *)
(***************************************************************************)
\* the library pool holds ten tracks, all clean and all passing the guards
TenCleanPool ==
  /\ Len(pool) = 10
  /\ \A i \in DOMAIN pool :
       ~pool[i].track.explicit /\ PassesGuards(pool[i].track, _derive_genre_tokens(plan))

\* C16 (as the specification states it): with explicit_allowed "no", a pool
\* of ten clean tracks that pass the guards and N = 4, preview returns four
\* tracks of the pool and makes no search call, whatever valid result the
\* advisory selector gave.
C16_FourFromPoolNoSearch ==
  /\ pc = "done"
  /\ plan.explicit_allowed = "no"
  /\ N = 4
  /\ TenCleanPool
  => /\ Len(result.uris) = 4
     /\ \A i \in DOMAIN result.tracks : result.tracks[i].id \in PoolIds(pool)
     /\ search_calls = NoSearchCalls

(***************************************************************************)
(* Properties of the candidate pool, under SpecCollect.                    *)
(***************************************************************************)
\* the tracks a source supplied: none when its fetch failed
Supplied(s) == IF library[s].ok THEN library[s].items ELSE <<>>

\* the first source, in the order recent, top short, top medium, saved, that
\* supplied the track id
FirstSource(tid) ==
  LET from == {s \in DOMAIN Sources : \E k \in DOMAIN Supplied(s) : Supplied(s)[k].id = tid}
  IN Sources[CHOOSE s \in from : \A x \in from : s <= x]

\* every pool entry has an id and a playable uri, none is disallowed, each id
\* occurs once under the tag of the first source that supplied it, and the
\* count of a source is the number of entries with its tag
PoolWellFormed ==
  /\ \A i \in DOMAIN pool :
       /\ pool[i].track.id # ""
       /\ pool[i].track.uri # ""
       /\ pool[i].track.id \notin disallowed_ids
       /\ \E s \in DOMAIN Sources : \E k \in DOMAIN Supplied(s) :
            Supplied(s)[k].id = pool[i].track.id
       /\ pool[i].source = FirstSource(pool[i].track.id)
       /\ \A j \in DOMAIN pool : pool[j].track.id = pool[i].track.id => j = i
  /\ \A src \in Range(Sources) :
       source_counts[src] = Cardinality({i \in DOMAIN pool : pool[i].source = src})
  /\ source_counts["recent"] + source_counts["top_short"] + source_counts["top_medium"]
       + source_counts["saved"] = Len(pool)

\* where the sources hold a disallowed id: <<source, position>>
DisallowedOccurrences ==
  UNION {{<<s, k>> : k \in {x \in DOMAIN Supplied(s) : Supplied(s)[x].id \in disallowed_ids}} :
           s \in DOMAIN Sources}

\* C25 (as the specification states it): after _collect_pool_with_counts the
\* pool is well formed and every occurrence of a disallowed id in a source is
\* counted in filtered_from_pool and in no source count.
C25_PoolInvariants ==
  pc # "start" =>
    /\ PoolWellFormed
    /\ filtered_from_pool = Cardinality(DisallowedOccurrences)

\* C25 (amended): after _collect_pool_with_counts the pool is well formed and
\* every occurrence of a disallowed id that has a playable uri is counted in
\* filtered_from_pool and in no source count; an occurrence without a uri is
\* skipped like any track without a uri, uncounted.
C25_PoolInvariantsAmended ==
  pc # "start" =>
    /\ PoolWellFormed
    /\ filtered_from_pool =
         Cardinality({o \in DisallowedOccurrences : Supplied(o[1])[o[2]].uri # ""})

\* a pool built while one source failed, from sources that held a track of
\* an earlier source, a track without id, and three or more occurrences of
\* the disallowed id
C25_Witness ==
  /\ pc = "select"
  /\ \E s \in DOMAIN Sources : ~library[s].ok
  /\ library[4] = Answer(<<T4, T3, T12, T1>>)
  /\ \E i \in DOMAIN pool : pool[i].track.id = "t4" /\ pool[i].source # "saved"
  /\ Len(pool) >= 3
  /\ disallowed_ids = {"t1"}
  /\ filtered_from_pool >= 3

(***************************************************************************)
(* Properties of select_tracks, under SpecSelect.                          *)
(***************************************************************************)
\* the select_tracks call has returned or raised
SelectEnded == sel_pc \in {"returned", "raised"}

\* C9: select_tracks makes at most two attempts: one when the first payload
\* is valid, two when it fails validation, and a failed retry is raised
\* with no further attempt.
C9_AtMostTwoAttempts ==
  /\ llm_calls <= 2
  /\ SelectEnded /\ attempts_debug # <<>> /\ SelectorResultValid(attempts_debug[1])
       => llm_calls = 1 /\ sel_pc = "returned" /\ sel_result = attempts_debug[1].picks
  /\ SelectEnded /\ attempts_debug # <<>> /\ ~SelectorResultValid(attempts_debug[1])
       => llm_calls = 2
  /\ SelectEnded /\ llm_calls = 2
       /\ ~(Len(attempts_debug) = 2 /\ SelectorResultValid(attempts_debug[2]))
       => sel_pc = "raised" /\ sel_error # "none"
  /\ SelectEnded => ~ENABLED SelectNext

\* the first payload held a pick with both a library id and a title+artist,
\* the retry payload was invalid too, and the call raised
C9_Witness ==
  /\ sel_pc = "raised"
  /\ llm_calls = 2
  /\ Len(attempts_debug) = 2
  /\ \E i \in DOMAIN attempts_debug[1].picks :
       /\ attempts_debug[1].picks[i].library_id # ""
       /\ attempts_debug[1].picks[i].title # <<>>
       /\ attempts_debug[1].picks[i].artist # <<>>
  /\ ~SelectorResultValid(attempts_debug[2])

\* C27: every pick of the result select_tracks returns is either a library
\* reference (library_id set, title and artist not both set) or an outside
\* suggestion (title and artist both set, no library_id), never both and
\* never neither; the result is the payload of the last attempt, so a payload
\* holding a pick with both or with neither is not returned.
C27_PickIsLibraryOrOutside ==
  sel_pc = "returned" =>
    /\ sel_result = attempts_debug[Len(attempts_debug)].picks
    /\ \A i \in DOMAIN sel_result :
         LET p == sel_result[i]
             outside == p.title # <<>> /\ p.artist # <<>>
         IN \/ p.library_id # "" /\ ~outside
            \/ p.library_id = "" /\ outside

\* a result with a library reference and an outside suggestion, returned by
\* the retry after a first payload that held a pick with both or with neither
C27_Witness ==
  /\ sel_pc = "returned"
  /\ llm_calls = 2
  /\ \E i \in DOMAIN attempts_debug[1].picks :
       LET p == attempts_debug[1].picks[i]
           outside == p.title # <<>> /\ p.artist # <<>>
       IN (p.library_id # "") <=> outside
  /\ \E i, j \in DOMAIN sel_result :
       sel_result[i].library_id # "" /\ sel_result[j].library_id = ""

(***************************************************************************)
(* Properties of the lease, under SpecLease.                               *)
(***************************************************************************)
\* a playlist_build request whose handler has not returned
BuildRunning(b) ==
  requests[b].view = "playlist_build" /\ requests[b].at # "done"

\* the sequence that plan_from_mood request s started has ended: its planner
\* failed, or its build attempt has ended
SequenceEnded(s) ==
  \/ requests[s].status = 502
  \/ \E b \in DOMAIN requests :
       requests[b].view = "playlist_build" /\ requests[b].seq = s /\ requests[b].at = "done"

\* the sequence of request s is in flight: granted, not ended, TTL not elapsed
InFlight(s) ==
  /\ requests[s].view = "plan_from_mood"
  /\ requests[s].granted_at >= 0
  /\ now - requests[s].granted_at < PENDING_LEASE_TTL_SECONDS
  /\ ~SequenceEnded(s)

\* two sequences are never in flight together
C10_NoSecondGrant ==
  \A s, t \in DOMAIN requests : InFlight(s) /\ InFlight(t) => s = t

\* while a sequence is in flight, no playlist_build other than its own runs
C10_NoOtherBuild ==
  \A s, b \in DOMAIN requests : InFlight(s) /\ BuildRunning(b) => requests[b].seq = s

\* C10 (as the specification states it): at most one plan-then-build
\* sequence of the user is in flight, and while one is, no playlist_build
\* other than its own runs.
C10_OneSequenceInFlight == C10_NoSecondGrant /\ C10_NoOtherBuild

\* request i returns in this step
Returns(i) ==
  /\ i \in DOMAIN requests'
  /\ requests'[i].at = "done"
  /\ (i \in DOMAIN requests => requests[i].at # "done")

\* C11 (as the specification states it): the lease is released on every exit
\* path: whenever a playlist_build request returns, whatever its outcome, and
\* whenever a granted plan_from_mood returns a planner failure, the profile
\* is left with plan_then_build_pending = False.
C11_LeaseReleasedOnEveryExit ==
  [][\A i \in DOMAIN requests' :
       /\ Returns(i)
       /\ \/ requests'[i].view = "playlist_build"
          \/ requests'[i].view = "plan_from_mood" /\ requests'[i].status = 502
       => ~profile'.plan_then_build_pending]_vars

\* a plan_from_mood request arrives in this step and its transaction ends
\* without an error: its mood is a non-empty string (else 400) and the
\* database answered (else 500)
PlanRequestArrives ==
  /\ Len(requests') = Len(requests) + 1
  /\ requests'[Len(requests')].view = "plan_from_mood"
  /\ requests'[Len(requests')].status \notin {400, 500}

\* C12: a lease cannot wedge the user. A plan_from_mood request that finds
\* the lease pending and at least PENDING_LEASE_TTL_SECONDS old (or pending
\* with no start time), with no cooldown active, is granted and restarts the
\* lease at the current time; one that finds the lease pending and younger
\* than the TTL is rejected with 429 and leaves the lease as it is.
C12_ExpiredLeaseRegranted ==
  [][PlanRequestArrives /\ profile.plan_then_build_pending =>
       LET r == requests'[Len(requests')]
           started == profile.plan_then_build_started_at
       IN IF started >= 0 /\ now - started < PENDING_LEASE_TTL_SECONDS
          THEN r.status = 429 /\ r.at = "done" /\ profile' = profile
          ELSE CooldownActive(profile, cooldown_enabled, now)
               \/ /\ r.status = 0
                  /\ r.at = "planning"
                  /\ r.granted_at = now
                  /\ profile'.plan_then_build_pending
                  /\ profile'.plan_then_build_started_at = now]_vars

\* a request was granted the lease that another request still held when its
\* TTL ran out: the holder's planner never answered and no playlist_build
\* was ever received
C12_Witness ==
  /\ \A b \in DOMAIN requests : requests[b].view = "plan_from_mood"
  /\ \E i, j \in DOMAIN requests :
       /\ i < j
       /\ requests[i].at = "planning"
       /\ requests[i].granted_at >= 0
       /\ requests[j].granted_at >= requests[i].granted_at + PENDING_LEASE_TTL_SECONDS
       /\ profile.plan_then_build_pending
       /\ profile.plan_then_build_started_at = requests[j].granted_at
       /\ \E k \in DOMAIN requests :
            i < k /\ k < j /\ requests[k].status = 429

\* the playlist_build requests that created and recorded a playlist
SuccessfulBuilds ==
  {i \in DOMAIN requests : requests[i].view = "playlist_build" /\ requests[i].status = 200}

\* C30 (as the specification states it): with the build cooldown enabled a
\* user gets at most one successful build in 24 hours (every request of the
\* model falls within MaxTicks * TickSeconds seconds, less
\* than COOLDOWN_SECONDS), and a request that arrives after a successful
\* build is rejected: it is neither granted the lease nor let on to build
\* (429 from the cooldown test, or the 4xx/5xx of a check that stands before
\* it).
C30_OneBuildPerWindow ==
  [][cooldown_enabled =>
       /\ Cardinality(SuccessfulBuilds') <= 1
       /\ SuccessfulBuilds # {} /\ Len(requests') > Len(requests) =>
            requests'[Len(requests')].status \notin {0, 200}]_vars

\* the plan_from_mood requests that were granted the lease
Granted == {j \in DOMAIN requests : requests[j].view = "plan_from_mood" /\ requests[j].granted_at >= 0}

\* the request the lease in force was granted to: the last one granted (0 when
\* none was)
LeaseOwner ==
  IF Granted = {} THEN 0 ELSE CHOOSE j \in Granted : \A k \in Granted : k <= j

\* the plan-then-build sequence request i belongs to: itself for a
\* plan_from_mood, the plan_from_mood whose plan it carries for a
\* playlist_build (0: none)
OwnSequence(i) ==
  IF requests'[i].view = "plan_from_mood" THEN i ELSE requests'[i].seq

\* C37 (as the specification states it): a lease is cleared only on behalf of
\* the sequence that was granted it, or by expiry: when a plan_from_mood
\* returns a planner failure or a playlist_build returns, and the request
\* belongs to a sequence that was granted a lease, it does not set
\* plan_then_build_pending to False while the lease in force, younger than the
\* TTL, was granted to a different, later request.
C37_ClearedOnlyByOwner ==
  [][\A i \in DOMAIN requests' :
       /\ Returns(i)
       /\ \/ requests'[i].view = "playlist_build"
          \/ requests'[i].view = "plan_from_mood" /\ requests'[i].status = 502
       /\ OwnSequence(i) # 0
       /\ LeaseHeld(profile, now)
       /\ LeaseOwner > OwnSequence(i)
       => profile'.plan_then_build_pending]_vars

\* C38: a rejected plan_from_mood changes nothing. A request answered 400
\* (no mood) or 429 leaves plan_then_build_pending and
\* plan_then_build_started_at (and the cooldown timestamp) as they were, and
\* 429 is answered only when the cooldown is active or the lease is pending
\* and younger than the TTL.
C38_RejectionChangesNothing ==
  [][/\ Len(requests') = Len(requests) + 1
     /\ requests'[Len(requests')].view = "plan_from_mood"
     /\ requests'[Len(requests')].status \in {400, 429}
     => /\ profile' = profile
        /\ requests'[Len(requests')].at = "done"
        /\ requests'[Len(requests')].granted_at = -1
        /\ requests'[Len(requests')].status = 429 =>
             CooldownActive(profile, cooldown_enabled, now) \/ LeaseHeld(profile, now)]_vars

\* a lease granted at time 0 is still in force, unchanged, after time has
\* passed and one request was answered 429 and another 400
C38_Witness ==
  /\ now > 0
  /\ Len(requests) = 3
  /\ requests[1].granted_at = 0
  /\ requests[2].view = "plan_from_mood" /\ requests[2].status = 429
  /\ requests[3].view = "plan_from_mood" /\ requests[3].status = 400
  /\ profile.plan_then_build_pending
  /\ profile.plan_then_build_started_at = 0

(***************************************************************************)
(* Properties of playlist_preview and playlist_build, under SpecView.      *)
(***************************************************************************)
\* C13 (as the specification states it): when a catalog call of the request
\* failed with an HTTP error, the response carries the upstream status and
\* payload, and the upstream Retry-After value when there is one.
C13_UpstreamErrorForwarded ==
  view_pc = "done" /\ upstream # NoUpstream =>
    /\ response.status = upstream.status_code
    /\ response.payload = upstream.json
    /\ \A h \in upstream.headers :
         h[1] \in {"Retry-After", "retry-after"} => <<"Retry-After", h[2]>> \in response.headers

\* the catalog calls that create or fill a playlist
WriteCalls ==
  {i \in DOMAIN spotify_calls :
     spotify_calls[i].call \in {"create_playlist", "add_items_to_playlist"}}

\* C14: a short playlist is never built. create_playlist and
\* add_items_to_playlist are called only by playlist_build and only after
\* preview returned exactly the requested number of uris, all of which are
\* added; when preview returns no uris the request is answered 422 with the
\* debug record, no playlist is created and no PlaylistProfile row is written.
C14_NoShortPlaylist ==
  /\ WriteCalls # {} =>
       /\ view_name = "playlist_build"
       /\ preview_uris = view_length
  /\ \A i \in WriteCalls :
       spotify_calls[i].call = "add_items_to_playlist" => spotify_calls[i].uris = view_length
  /\ playlist_rows # <<>> => preview_uris = view_length /\ response.added = view_length
  /\ view_pc = "done" /\ preview_uris = 0 =>
       /\ response.status = 422
       /\ response.debug
       /\ WriteCalls = {}
       /\ spotify_calls = <<>>
       /\ playlist_rows = <<>>

\* playlist_build answered 422 after an empty preview, having called nothing
C14_Witness ==
  /\ view_name = "playlist_build"
  /\ view_pc = "done"
  /\ preview_uris = 0
  /\ response.status = 422
  /\ spotify_calls = <<>>
  /\ ~profile.plan_then_build_pending

\* create_playlist succeeded and, after it, add_items_to_playlist succeeded
\* with every uri of the preview
WritesSucceeded ==
  \E i, j \in DOMAIN spotify_calls :
    /\ i < j
    /\ spotify_calls[i].call = "create_playlist" /\ spotify_calls[i].ok
    /\ spotify_calls[j].call = "add_items_to_playlist" /\ spotify_calls[j].ok
    /\ spotify_calls[j].uris = preview_uris

\* C39: a PlaylistProfile row is created, and last_playlist_create_time
\* changed, only after create_playlist and add_items_to_playlist both
\* succeeded for the whole list; the row's length is the number of uris added
\* and lies in 4..10; and once a catalog write has failed, no row exists and
\* the cooldown timestamp stays as it was.
C39_RecordedOnlyAfterWrites ==
  [][/\ playlist_rows' # playlist_rows =>
          /\ WritesSucceeded
          /\ playlist_rows = <<>>
          /\ Len(playlist_rows') = 1
          /\ playlist_rows'[1].length = preview_uris
          /\ \A j \in WriteCalls :
               spotify_calls[j].call = "add_items_to_playlist" =>
                 spotify_calls[j].uris = playlist_rows'[1].length
          /\ playlist_rows'[1].length \in 4..10
     /\ profile'.last_playlist_create_time # profile.last_playlist_create_time =>
          /\ playlist_rows' # playlist_rows
          /\ profile'.last_playlist_create_time = now
     /\ (\E j \in WriteCalls' : ~spotify_calls'[j].ok) =>
          /\ playlist_rows' = <<>>
          /\ view_pc' = "done"
          /\ response'.status # 200
          /\ profile'.last_playlist_create_time = profile.last_playlist_create_time]_vars

\* a playlist_build of a user who had built nothing before answered 200: one
\* row of length 5 after three catalog calls, the cooldown timestamp set
C39_Witness ==
  /\ view_pc = "done"
  /\ response.status = 200
  /\ playlist_rows = <<[length |-> 5]>>
  /\ Len(spotify_calls) = 3
  /\ WritesSucceeded
  /\ profile.last_playlist_create_time = now

(***************************************************************************)
(* Properties of the popularity floors, under SpecFloor.                   *)
(***************************************************************************)
\* C36 (as the specification states it): the relaxed pass never demands more
\* track popularity than the guarded passes: for the configured MIN_TRACK_POP,
\* any of 0..100, the relaxed floor max(10, MIN_TRACK_POP div 2) is at most
\* MIN_TRACK_POP, and a candidate that meets the guarded track-popularity
\* threshold meets the relaxed floor.
C36_RelaxedNeverStricter ==
  /\ pop_thresh(min_track_pop) <= min_track_pop
  /\ floor_cand # -1 /\ floor_verdict.guarded => floor_verdict.relaxed

(***************************************************************************)
(* Properties of the length, under SpecLength.                             *)
(***************************************************************************)
\* the standalone numbers of one to three digits of a text: runs of digits
\* with no letter, digit or underscore next to them
StandaloneNumbers(text) ==
  {r \in (DOMAIN text) \X (DOMAIN text) :
     /\ r[1] <= r[2] /\ r[2] - r[1] + 1 <= 3
     /\ \A k \in r[1]..r[2] : IsDigit(text[k])
     /\ r[1] = 1 \/ ~IsWordChar(text[r[1] - 1])
     /\ r[2] = Len(text) \/ ~IsWordChar(text[r[2] + 1])}

\* the length the mood text asks for: 10 without a standalone number, else
\* the first one, raised to 4 and lowered to 10
LengthAskedFor(text) ==
  IF StandaloneNumbers(text) = {} THEN 10
  ELSE LET first == CHOOSE r \in StandaloneNumbers(text) :
                      \A q \in StandaloneNumbers(text) : r[1] <= q[1]
           n == ToInt(SubSeq(text, first[1], first[2]))
       IN IF n <= 4 THEN 4 ELSE IF n >= 10 THEN 10 ELSE n

\* C33: the length is within 4..10 and never chosen by the model. The plan
\* make_plan_from_mood returns has the length the mood text asks for (10
\* without a standalone number of one to three digits, 4 when the first such
\* number is at most 4, 10 when it is at least 10, else that number), whatever
\* length the model wrote; the view hands preview a length in 4..10, and N of
\* preview is in 4..10.
C33_LengthFromMoodText ==
  /\ len_pc \in {"planned", "requested", "clamped"} =>
       /\ plan_length = LengthAskedFor(Strip(mood_text))
       /\ plan_length \in 4..10
  /\ len_pc \in {"requested", "clamped"} => request_length \in 4..10
  /\ len_pc = "clamped" => preview_n \in 4..10 /\ preview_n = request_length

\* the model wrote length 50 for a mood whose first standalone number is 5,
\* after a number of four digits: the plan has length 5, and preview, asked
\* for 12 tracks by the request body, builds 10
C33_Witness ==
  /\ len_pc = "clamped"
  /\ mood_text = <<"1","2","3","4"," ","5">>
  /\ emitted_length = 50
  /\ plan_length = 5
  /\ request_length = 10
  /\ preview_n = 10

(***************************************************************************)
(* Properties of the OAuth state, under SpecOAuth.                         *)
(***************************************************************************)
\* the callbacks whose UPDATE claimed state st
Claimants(st) == {i \in DOMAIN callbacks : callbacks[i].state = st /\ callbacks[i].claimed}

\* C31: an OAuth state is single-use and time-limited. Under every
\* interleaving of callbacks at most one passes the claim for a state; a
\* callback passes it only for a state the server issued, not used before and
\* not expired at the callback's reading of the clock; a used state is never
\* made unused again, whatever the token exchange and the profile fetch of
\* its claimant answer; and only a claimant saves tokens.
C31_StateSingleUse ==
  [][/\ \A st \in {0} \cup DOMAIN auth_states' : Cardinality(Claimants(st)') <= 1
     /\ \A i \in DOMAIN callbacks :
          callbacks'[i].claimed /\ ~callbacks[i].claimed =>
            LET st == callbacks[i].state
            IN /\ st \in DOMAIN auth_states
               /\ auth_states[st].used_at = -1
               /\ auth_states[st].expires_at > callbacks[i].now
               /\ auth_states'[st].used_at = callbacks[i].now
     /\ \A st \in DOMAIN auth_states :
          auth_states[st].used_at # -1 => auth_states'[st] = auth_states[st]
     /\ \A i \in DOMAIN callbacks' :
          /\ callbacks'[i].claimed => auth_states'[callbacks'[i].state].used_at # -1
          /\ callbacks'[i].status = 200 => callbacks'[i].claimed
          /\ ~callbacks'[i].claimed /\ callbacks'[i].at = "done" =>
               callbacks'[i].status \in {400, 500}
     /\ \A k \in DOMAIN connections' : callbacks'[connections'[k]].claimed]_vars

\* two callbacks returned with the same state and read the clock at the same
\* time, before the state expired: one claimed it and the other was refused;
\* the profile fetch of the claimant failed, and the state is still used
C31_Witness ==
  /\ Len(callbacks) = 2
  /\ \A i \in 1..2 : callbacks[i].state = 1 /\ callbacks[i].at = "done"
  /\ callbacks[1].now = callbacks[2].now
  /\ callbacks[1].now > 0
  /\ callbacks[1].now < auth_states[1].expires_at
  /\ ~callbacks[1].claimed /\ callbacks[1].status = 400
  /\ callbacks[2].claimed /\ callbacks[2].status = 401
  /\ auth_states[1].used_at = callbacks[2].now
  /\ connections = <<>>

(***************************************************************************)
(* Properties of the stale-playlist refresh, under SpecRefresh.            *)
(***************************************************************************)
\* the fetches made for row r, in order
FetchesOf(r) == SelectSeq(fetch_log, LAMBDA f : f.row = r)

\* each stale row is fetched at most twice, and a second time only after a
\* 429 or a 5xx answer; a row that is not stale, or has no playlist id, is
\* not fetched
C32_AtMostOneRetry ==
  \A r \in DOMAIN rows :
    /\ Len(FetchesOf(r)) <= 2
    /\ Len(FetchesOf(r)) = 2 =>
         LET first == FetchesOf(r)[1].answer.status_code
         IN first = 429 \/ (500 <= first /\ first <= 599)
    /\ ~rows[r].has_id \/ ~rows[r].stale => FetchesOf(r) = <<>>

\* the Retry-After value of an answer, in either spelling ("" for none)
RetryAfterOf(a) ==
  IF HeaderGet(a.headers, "Retry-After") # "" THEN HeaderGet(a.headers, "Retry-After")
  ELSE HeaderGet(a.headers, "retry-after")

\* when a fetch was answered 429 and its retry was answered 429 too, the loop
\* stopped there, metrics.rate_limited is true and metrics.retry_after is the
\* upstream Retry-After value, of the retry or else of the first answer
C32_RateLimitStopsLoop ==
  \A k \in 1..(Len(fetch_log) - 1) :
    /\ fetch_log[k].row = fetch_log[k + 1].row
    /\ fetch_log[k].answer.status_code = 429
    /\ fetch_log[k + 1].answer.status_code = 429
    => /\ k + 1 = Len(fetch_log)
       /\ refresh_pc = "returned"
       /\ metrics.rate_limited
       /\ metrics.retry_after =
            IF RetryAfterOf(fetch_log[k + 1].answer) # ""
            THEN RetryAfterOf(fetch_log[k + 1].answer)
            ELSE RetryAfterOf(fetch_log[k].answer)

\* C32 (as the specification states it): each stale playlist is fetched at
\* most twice, the retry only after 429 or 5xx; and a 429 answered to the
\* fetch and to its retry stops the loop, sets metrics.rate_limited and
\* returns the upstream Retry-After in metrics.retry_after.
C32_RefreshRetriesOnceAndStops == C32_AtMostOneRetry /\ C32_RateLimitStopsLoop

====
